---- MODULE Spec2Model ----
(***************************************************************************)
(* Row-level authorization of the facility-management application.        *)
(*                                                                         *)
(* The store keeps a set of row-level policies that the SQL migrations     *)
(* and the fixProfilesPolicy script create and drop.  A client operation   *)
(* (SELECT, INSERT, UPDATE, DELETE) on a row is permitted when one of the  *)
(* installed policies for that table and command applies to the caller     *)
(* and its expression is true.  The expressions are kept as the SQL text   *)
(* the migrations contain and are evaluated by Eval.                       *)
(*                                                                         *)
(* A policy expression that reads the profiles table reads the caller's    *)
(* own row; that row is visible to the caller under "Users can view their  *)
(* own profile" in every policy state, and get_my_role is SECURITY         *)
(* DEFINER.  The initial "Admins can view all profiles" policy, which      *)
(* reads profiles from a policy on profiles, is evaluated by the meaning   *)
(* of its expression.                                                      *)
(***************************************************************************)
EXTENDS Integers, FiniteSets, Sequences, TLC

\* ------------------------------------------------------------------------
\* Bounds
\* ------------------------------------------------------------------------
MaxMessages == 1
MaxInactive == 1

\* The most identities and profiles the client flows create.
MaxCreated == 1

\* The most auth listener callbacks that await their profile fetch at a time.
MaxFetches == 1

\* The most fetchMessages calls that await their query at a time.
MaxMessageFetches == 2

\* The most chat_messages inserts in flight at a time.
MaxInserts == 2

\* The most rows of the notifications table.
MaxNotifications == 1

\* The most requests of the notifications page in flight at a time.
MaxPageRequests == 2

\* ------------------------------------------------------------------------
\* Schema
\* ------------------------------------------------------------------------
Null == 0

NumSeedProfiles == 4

Ids == 1..NumSeedProfiles

Actors == Ids \cup {Null}

Roles == {"ADMIN", "STAFF", "FAMILY", "RESIDENT"}

Statuses == {"active", "inactive"}

SeedRole(p) ==
    CASE p = 1 -> "ADMIN"
      [] p = 2 -> "STAFF"
      [] p = 3 -> "FAMILY"
      [] OTHER -> "RESIDENT"

Tables ==
    {"profiles", "residents", "staff", "events", "incidents", "medications",
     "announcements", "care_plans", "care_routines", "chat_messages",
     "notifications", "tasks", "todos", "medication_log"}

Cmds == {"SELECT", "INSERT", "UPDATE", "DELETE"}

\* A row, reduced to the columns the policies and the claims speak of.
Row(id, profile_id, sender_id, receiver_id, user_id, assigned_to, administered_by) ==
    [id |-> id, profile_id |-> profile_id, sender_id |-> sender_id,
     receiver_id |-> receiver_id, user_id |-> user_id,
     assigned_to |-> assigned_to, administered_by |-> administered_by]

ProfileRow(p) == Row(p, Null, Null, Null, Null, Null, Null)

ResidentRow(p) == Row(Null, p, Null, Null, Null, Null, Null)

ChatRow(s, r) == Row(Null, Null, s, r, Null, Null, Null)

NotificationRow(u) == Row(Null, Null, Null, Null, u, Null, Null)

MedicationLogRow(u) == Row(Null, Null, Null, Null, Null, Null, u)

\* The foreign-key columns are nullable.
IdsOrNull == Ids \cup {Null}

RowsOf(tbl) ==
    CASE tbl = "profiles" -> {ProfileRow(p) : p \in Ids}
      [] tbl \in {"residents", "staff"} -> {ResidentRow(p) : p \in IdsOrNull}
      [] tbl = "chat_messages" ->
            {ChatRow(s, r) : s \in IdsOrNull, r \in IdsOrNull}
      [] tbl = "notifications" -> {NotificationRow(u) : u \in IdsOrNull}
      [] tbl \in {"tasks", "todos"} ->
            {Row(Null, Null, Null, Null, Null, u, Null) : u \in IdsOrNull}
      [] tbl = "medication_log" -> {MedicationLogRow(u) : u \in Ids}
      [] OTHER -> {Row(Null, Null, Null, Null, Null, Null, Null)}

\* ------------------------------------------------------------------------
\* Policy expressions
\* ------------------------------------------------------------------------
\* SQL equality: NULL never equals anything.
SqlEq(a, b) == a # Null /\ b # Null /\ a = b

\* Variants of ExistsProfile with a slip in the role or status test.
ExistsProfile_StaffOnly(pf, uid, roles) ==
    \E p \in DOMAIN pf :
        SqlEq(p, uid)
        /\ pf[p].role \in (IF "STAFF" \in roles THEN {"STAFF"} ELSE roles)

ExistsProfile_NoFamily(pf, uid, roles) ==
    \E p \in DOMAIN pf : SqlEq(p, uid) /\ pf[p].role \in roles \ {"FAMILY"}

ExistsProfile_ActiveOnly(pf, uid, roles) ==
    \E p \in DOMAIN pf :
        SqlEq(p, uid) /\ pf[p].role \in roles /\ pf[p].status # "inactive"

ExistsProfile_AnyRole(pf, uid, roles) ==
    \E p \in DOMAIN pf : SqlEq(p, uid)

\* EXISTS (SELECT 1 FROM profiles WHERE id = auth.uid() AND role IN roles)
ExistsProfile(pf, uid, roles) ==
    \E p \in DOMAIN pf : SqlEq(p, uid) /\ pf[p].role \in roles

\* SELECT role FROM public.profiles WHERE id = auth.uid()
get_my_role(pf, uid) ==
    IF uid \in DOMAIN pf THEN pf[uid].role ELSE "NULL"

\* auth.uid() IN (SELECT id FROM profiles WHERE role = 'ADMIN')
UidInAdmins(pf, uid) ==
    \E p \in {q \in DOMAIN pf : pf[q].role = "ADMIN"} : SqlEq(uid, p)

\* Variants of the ownership tests that accept every row.
OwnProfile_Any(uid, row) == uid # Null

SentByCaller_Any(uid, row) == uid # Null

OwnNotification_Any(uid, row) == uid # Null

OwnProfile(uid, row) == SqlEq(uid, row.id)

OwnMessage(uid, row) == SqlEq(uid, row.sender_id) \/ SqlEq(uid, row.receiver_id)

SentByCaller(uid, row) == SqlEq(uid, row.sender_id)

OwnNotification(uid, row) == SqlEq(uid, row.user_id)

AssignedToCaller(uid, row) == SqlEq(uid, row.assigned_to)

Eval(expr, pf, uid, row) ==
    CASE expr = "true" -> TRUE
      [] expr = "auth.uid() = id" -> OwnProfile(uid, row)
      [] expr = "EXISTS (profiles: id = auth.uid() AND role = 'ADMIN')" ->
            ExistsProfile(pf, uid, {"ADMIN"})
      [] expr = "EXISTS (profiles: id = auth.uid() AND role IN ('ADMIN', 'STAFF'))" ->
            ExistsProfile(pf, uid, {"ADMIN", "STAFF"})
      [] expr = "EXISTS (profiles: id = auth.uid() AND role = 'FAMILY')" ->
            ExistsProfile(pf, uid, {"FAMILY"})
      [] expr = "auth.uid() = sender_id OR auth.uid() = receiver_id" ->
            OwnMessage(uid, row)
      [] expr = "auth.uid() = sender_id" -> SentByCaller(uid, row)
      [] expr = "auth.uid() = user_id" -> OwnNotification(uid, row)
      [] expr = "auth.uid() = assigned_to" -> AssignedToCaller(uid, row)
      [] expr = "get_my_role() = 'ADMIN'" -> get_my_role(pf, uid) = "ADMIN"
      [] expr = "get_my_role() IN ('ADMIN', 'STAFF')" ->
            get_my_role(pf, uid) \in {"ADMIN", "STAFF"}
      [] expr = "(SELECT role FROM profiles WHERE id = auth.uid()) IN ('ADMIN', 'STAFF')" ->
            get_my_role(pf, uid) \in {"ADMIN", "STAFF"}
      [] expr = "(SELECT role FROM profiles WHERE id = auth.uid()) IN ('ADMIN', 'STAFF') AND administered_by = auth.uid()" ->
            get_my_role(pf, uid) \in {"ADMIN", "STAFF"}
                /\ SqlEq(row.administered_by, uid)
      [] expr = "auth.uid() IN (SELECT id FROM profiles WHERE role = 'ADMIN')" ->
            UidInAdmins(pf, uid)
      [] OTHER -> FALSE

\* ------------------------------------------------------------------------
\* Policies
\* ------------------------------------------------------------------------
Policy(name, tbl, cmd, to, expr) ==
    [name |-> name, table |-> tbl, cmd |-> cmd, to |-> to, expr |-> expr]

StaffOrAdmin == "EXISTS (profiles: id = auth.uid() AND role IN ('ADMIN', 'STAFF'))"

ViewOwnMessagesInitial ==
    Policy("Users can view their own messages", "chat_messages", "SELECT",
           "public", "auth.uid() = sender_id OR auth.uid() = receiver_id")

CreateMessagesInitial ==
    Policy("Users can create messages", "chat_messages", "INSERT",
           "public", "auth.uid() = sender_id")

AdminsViewAllProfilesInitial ==
    Policy("Admins can view all profiles", "profiles", "SELECT", "public",
           "EXISTS (profiles: id = auth.uid() AND role = 'ADMIN')")

EveryoneCanViewStaff ==
    Policy("Everyone can view staff", "staff", "SELECT", "authenticated",
           "true")

AdminStaffSelectStaff ==
    Policy("Allow admin/staff select access for staff", "staff", "SELECT",
           "authenticated", "get_my_role() IN ('ADMIN', 'STAFF')")

InitialSchemaPolicies ==
    { Policy("Users can view their own profile", "profiles", "SELECT",
             "public", "auth.uid() = id"),
      Policy("Users can update their own profile", "profiles", "UPDATE",
             "public", "auth.uid() = id"),
      AdminsViewAllProfilesInitial,
      Policy("Staff and admins can view all residents", "residents", "SELECT",
             "public", StaffOrAdmin),
      Policy("Family members can view their resident", "residents", "SELECT",
             "public", "EXISTS (profiles: id = auth.uid() AND role = 'FAMILY')"),
      EveryoneCanViewStaff,
      Policy("Everyone can view events", "events", "SELECT",
             "authenticated", "true"),
      Policy("Staff and admins can create events", "events", "INSERT",
             "public", StaffOrAdmin),
      Policy("Staff and admins can view all incidents", "incidents", "SELECT",
             "public", StaffOrAdmin),
      Policy("Staff and admins can create incidents", "incidents", "INSERT",
             "public", StaffOrAdmin),
      Policy("Staff and admins can view all medications", "medications",
             "SELECT", "public", StaffOrAdmin),
      Policy("Staff and admins can create medications", "medications",
             "INSERT", "public", StaffOrAdmin),
      Policy("Everyone can view announcements", "announcements", "SELECT",
             "authenticated", "true"),
      Policy("Staff and admins can create announcements", "announcements",
             "INSERT", "public", StaffOrAdmin),
      Policy("Staff and admins can view all care plans", "care_plans",
             "SELECT", "public", StaffOrAdmin),
      Policy("Staff and admins can create care plans", "care_plans",
             "INSERT", "public", StaffOrAdmin),
      Policy("Staff and admins can view all care routines", "care_routines",
             "SELECT", "public", StaffOrAdmin),
      Policy("Staff and admins can create care routines", "care_routines",
             "INSERT", "public", StaffOrAdmin),
      ViewOwnMessagesInitial,
      CreateMessagesInitial,
      Policy("Users can view their own notifications", "notifications",
             "SELECT", "public", "auth.uid() = user_id"),
      Policy("Users can view their own tasks", "tasks", "SELECT",
             "public", "auth.uid() = assigned_to"),
      Policy("Staff and admins can create tasks", "tasks", "INSERT",
             "public", StaffOrAdmin),
      Policy("Users can view their own todos", "todos", "SELECT",
             "public", "auth.uid() = assigned_to"),
      Policy("Users can create their own todos", "todos", "INSERT",
             "public", "auth.uid() = assigned_to"),
      Policy("Allow admin insert access for staff", "staff", "INSERT",
             "authenticated", "get_my_role() = 'ADMIN'"),
      AdminStaffSelectStaff }

TempAllowAllChatSelect ==
    Policy("TEMP - Allow any authenticated user to select all messages",
           "chat_messages", "SELECT", "authenticated", "true")

ViewOwnMessagesRestored ==
    Policy("Users can view their own messages", "chat_messages", "SELECT",
           "authenticated", "auth.uid() = sender_id OR auth.uid() = receiver_id")

CreateMessagesRestored ==
    Policy("Users can create messages", "chat_messages", "INSERT",
           "authenticated", "auth.uid() = sender_id")

AllowProfileInsert ==
    Policy("Allow authenticated users to insert profiles", "profiles",
           "INSERT", "authenticated", "true")

ViewMedicationLogs ==
    Policy("Allow admin and staff to view medication logs",
             "medication_log", "SELECT", "authenticated",
             "(SELECT role FROM profiles WHERE id = auth.uid()) IN ('ADMIN', 'STAFF')")

InsertMedicationLogs ==
    Policy("Allow admin and staff to insert medication logs",
           "medication_log", "INSERT", "authenticated",
           "(SELECT role FROM profiles WHERE id = auth.uid()) IN ('ADMIN', 'STAFF') AND administered_by = auth.uid()")

AdminsViewAllProfilesFixed ==
    Policy("Admins can view all profiles", "profiles", "SELECT", "public",
           "true")

AdminsUpdateAnyProfile ==
    Policy("Admins can update any profile", "profiles", "UPDATE", "public",
           "auth.uid() IN (SELECT id FROM profiles WHERE role = 'ADMIN')")

\* The installed policies are kept by table and command.
Installed(set) ==
    [tbl \in Tables |->
        [cmd \in Cmds |-> {p \in set : p.table = tbl /\ p.cmd = cmd}]]

\* CREATE POLICY name ON tbl FOR cmd
CreatePolicy(pols, p) == [pols EXCEPT ![p.table][p.cmd] = @ \cup {p}]

\* DROP POLICY IF EXISTS name ON tbl
DropPolicy(pols, name, tbl) ==
    [pols EXCEPT ![tbl] = [cmd \in Cmds |-> {p \in @[cmd] : p.name # name}]]

\* ------------------------------------------------------------------------
\* Policy evaluation
\* ------------------------------------------------------------------------
\* TO authenticated / TO public: the anonymous caller has no uid.
AppliesTo(to, uid) == to = "public" \/ uid # Null

\* The installed policies for a table and a command.
PoliciesFor(pols, tbl, cmd) == pols[tbl][cmd]

\* Variant of PermittedBy that combines the policies restrictively.
PermittedBy_All(ps, pf, uid, row) ==
    /\ \E p \in ps : AppliesTo(p.to, uid)
    /\ \A p \in ps : AppliesTo(p.to, uid) => Eval(p.expr, pf, uid, row)

\* Policies are permissive: one policy that applies to the caller and whose
\* expression is true permits the operation.
PermittedBy(ps, pf, uid, row) ==
    \E p \in ps : AppliesTo(p.to, uid) /\ Eval(p.expr, pf, uid, row)

\* Row level security is enabled on every table: with no policy for the
\* command the operation is denied.
Permitted(pols, pf, uid, tbl, cmd, row) ==
    PermittedBy(PoliciesFor(pols, tbl, cmd), pf, uid, row)

\* ------------------------------------------------------------------------
\* Route gate (middleware.ts)
\* ------------------------------------------------------------------------
\* A path is the sequence of the pieces of its text, cut so that the text of
\* one path starts with the text of another exactly when its pieces do.
StartsWith(s, p) == Len(p) <= Len(s) /\ SubSeq(s, 1, Len(p)) = p

DashboardPath == <<"/", "dashboard">>

\* const protectedRoutes, in the order of its keys.
protectedRoutes ==
    << [route |-> DashboardPath,
        roles |-> {"ADMIN", "STAFF", "FAMILY", "RESIDENT"}],
       [route |-> DashboardPath \o <<"/", "admin">>, roles |-> {"ADMIN"}],
       [route |-> DashboardPath \o <<"/", "staff">>,
        roles |-> {"ADMIN", "STAFF"}],
       [route |-> DashboardPath \o <<"/", "family">>,
        roles |-> {"ADMIN", "FAMILY"}],
       [route |-> DashboardPath \o <<"/", "resident">>,
        roles |-> {"ADMIN", "RESIDENT"}] >>

\* const authRoutes
authRoutes ==
    { <<"/", "login">>, <<"/", "register">>, <<"/", "auth", "/", "callback">>,
      <<"/", "forgot-password">>, <<"/", "reset-password">>,
      <<"/", "direct-login">>, <<"/", "direct-dashboard">>,
      <<"/", "dashboard", "-direct">>, <<"/", "force-dashboard">> }

\* The paths requested.
Paths ==
    { <<"/", "about">>, <<"/", "login">>, <<"/", "dashboard", "-direct">>,
      <<"/", "_next", "/", "static">>, DashboardPath,
      DashboardPath \o <<"/", "admin">>,
      DashboardPath \o <<"/", "admin", "/", "users">>,
      DashboardPath \o <<"/", "staff">>,
      DashboardPath \o <<"/", "family">>,
      DashboardPath \o <<"/", "resident">> }

\* The cookies a request carries, by name, in the order of getAll().
CookieJars ==
    { <<>>, <<"sb-access-token">>, <<"sb-proj-auth-token">>,
      <<"theme", "sb-refresh-token">> }

\* The outcomes of an awaited call: it returns data, returns an error, or
\* throws.  getSession() returns the user of the session, or no session.
SessionResults ==
    {[outcome |-> "ok", user |-> u] : u \in Actors}
    \cup {[outcome |-> o, user |-> Null] : o \in {"error", "throws"}}

CallOutcomes == {"ok", "error", "throws"}

\* Responses: NextResponse.next(), NextResponse.redirect(url), or the
\* exception the handler lets through.
ResNext == [kind |-> "next", to |-> <<>>, redirectedFrom |-> <<>>]

Redirect(to, from) == [kind |-> "redirect", to |-> to, redirectedFrom |-> from]

Uncaught == [kind |-> "exception", to |-> <<>>, redirectedFrom |-> <<>>]

\* path.startsWith('/_next') || ... '/favicon.ico' || ... '/public'
IsPublicAsset(path) ==
    \E a \in {<<"/", "_next">>, <<"/", "favicon.ico">>, <<"/", "public">>} :
        StartsWith(path, a)

\* authRoutes.some(route => path === route || path.startsWith(`${route}/`))
IsAuthRoute(path) ==
    \E route \in authRoutes :
        path = route \/ StartsWith(path, route \o <<"/">>)

\* Object.keys(protectedRoutes).some(route => path.startsWith(route))
isProtectedRoute(path) ==
    \E i \in DOMAIN protectedRoutes : StartsWith(path, protectedRoutes[i].route)

\* name.startsWith('sb-') && name.includes('auth')
SbAuthName(name) == name \in {"sb-proj-auth-token"}

\* Object.entries(request.cookies.getAll()): the entries of an array are
\* keyed by the index of each cookie, as a string.
CookieEntries(cookies) ==
    {<<ToString(i - 1), cookies[i]>> : i \in DOMAIN cookies}

Has(cookies, name) == \E i \in DOMAIN cookies : cookies[i] = name

\* const hasAuthCookie: .some(([name]) => ...) tests the key of each entry.
hasAuthCookie(cookies) ==
    \/ Has(cookies, "sb-access-token")
    \/ Has(cookies, "sb-refresh-token")
    \/ \E e \in CookieEntries(cookies) : SbAuthName(e[1])

\* Variant of redirectToLogin that does not record the requested path.
redirectToLogin_NoFrom(path) == Redirect(<<"/", "login">>, <<>>)

\* function redirectToLogin(request, path)
redirectToLogin(path) ==
    Redirect(<<"/", "login">>, IF path # <<"/">> THEN path ELSE <<>>)

\* Object.entries(protectedRoutes).find(([route]) => path.startsWith(route))
routeEntry(path) ==
    LET matches == {i \in DOMAIN protectedRoutes :
                        StartsWith(path, protectedRoutes[i].route)}
    IN  protectedRoutes[CHOOSE i \in matches : \A j \in matches : i <= j]

\* Variant of RoleCheck that sends the user to /login when the role cannot
\* be read.
RoleCheck_FailClosed(pols, pf, path, uid, profileQuery) ==
    IF /\ profileQuery = "ok"
       /\ uid \in DOMAIN pf
       /\ pf[uid].role \in routeEntry(path).roles
    THEN ResNext
    ELSE redirectToLogin(path)

\* The role check for the user of the session (the inner try block).  The
\* query reads the caller's own profile under the SELECT policies; .single()
\* with no visible row is an error.
RoleCheck(pols, pf, path, uid, profileQuery) ==
    LET visible == /\ uid \in DOMAIN pf
                   /\ Permitted(pols, pf, uid, "profiles", "SELECT",
                                ProfileRow(uid))
    IN  CASE profileQuery = "throws" -> ResNext
          [] profileQuery = "error" \/ ~visible -> ResNext
          [] OTHER ->
                IF pf[uid].role \notin routeEntry(path).roles
                THEN Redirect(DashboardPath, <<>>)
                ELSE ResNext

\* The fallback to getSession() when no auth cookie was found.  An exception
\* thrown here is caught by the outer try block.
SessionCheck(pols, pf, path, getSession, profileQuery) ==
    CASE getSession.outcome = "throws" -> ResNext
      [] getSession.outcome = "error" -> redirectToLogin(path)
      [] getSession.user = Null -> redirectToLogin(path)
      [] OTHER -> RoleCheck(pols, pf, path, getSession.user, profileQuery)

\* export async function middleware(request): the response to a request,
\* given the outcome of each call it awaits.
Respond(pols, pf, path, cookies, refresh, getSession, profileQuery) ==
    CASE refresh = "throws" -> Uncaught
      [] IsPublicAsset(path) -> ResNext
      [] IsAuthRoute(path) -> ResNext
      [] ~isProtectedRoute(path) -> ResNext
      [] hasAuthCookie(cookies) -> ResNext
      [] OTHER -> SessionCheck(pols, pf, path, getSession, profileQuery)

\* The URL of the browser: the path and the redirectedFrom parameter.
Url(path, redirectedFrom) == [path |-> path, redirectedFrom |-> redirectedFrom]

NoLocation == Url(<<>>, <<>>)

\* What a browser holds and the server sees while a navigation lasts: the
\* cookies sent with each request, the user of the session the server reads
\* from them, and whether the client library holds a session.
SessionState(cookies, server, client) ==
    [cookies |-> cookies, server |-> server, client |-> client]

NoSessionState == SessionState(<<>>, Null, FALSE)

\* LoginPage: searchParams.get('redirectedFrom') || '/dashboard'
redirectPath(url) ==
    IF url.redirectedFrom # <<>> THEN url.redirectedFrom ELSE DashboardPath

\* No request evaluated yet.
NoRequest ==
    [path |-> <<>>, cookies |-> <<>>, refresh |-> "ok",
     getSession |-> [outcome |-> "ok", user |-> Null], profileQuery |-> "ok"]

NoResponse == [kind |-> "none", to |-> <<>>, redirectedFrom |-> <<>>]

\* ------------------------------------------------------------------------
\* Rows written by the client flows
\* ------------------------------------------------------------------------
\* The ids the database and the auth service generate for new rows.
NewIds == (NumSeedProfiles + 1)..(NumSeedProfiles + MaxCreated)

\* INSERT INTO residents / INSERT INTO staff of the seed data.
SeedResidents == {[id |-> 4, profile_id |-> 4]}

SeedStaff == {[profile_id |-> 2]}

\* The toast a handler ends with: the handler, the step that failed (0 when
\* none did) and the id the handler created or acted on.
Toast(op, failed, id) == [op |-> op, failed |-> failed, id |-> id]

NoToast == Toast("none", 0, Null)

\* supabase.auth.signUp: an error, a user without a session (confirmation
\* pending), or a user whose session replaces the one of the client.
SignUpResults == {"error", "user", "session"}

\* A new profiles row; status takes its default once the column exists.
NewProfile(hasStatus, role) ==
    [role |-> role,
     status |-> IF hasStatus THEN "active" ELSE "NULL"]

\* The first id not in use.
FreshId(used) ==
    CHOOSE i \in NewIds \ used : \A j \in NewIds \ used : i <= j

\* INSERT INTO profiles by the caller: the INSERT policies check the new
\* row, and with .select() the SELECT policies must show it to the caller.
ProfileInsertPermitted(pols, pf, caller, id, returning) ==
    /\ Permitted(pols, pf, caller, "profiles", "INSERT", ProfileRow(id))
    /\ returning =>
          Permitted(pols, pf, caller, "profiles", "SELECT", ProfileRow(id))

\* Variant of DeletePermitted without row level security.
DeletePermitted_Any(pols, pf, caller, tbl, row) == TRUE

\* DELETE by the caller removes the rows the DELETE policies cover; other
\* rows stay, without an error.
DeletePermitted(pols, pf, caller, tbl, row) ==
    Permitted(pols, pf, caller, tbl, "DELETE", row)

\* DELETE FROM residents WHERE id = rid, with the ON DELETE CASCADE of
\* medications.resident_id, medication_log.resident_id and
\* medication_log.medication_id.
DeleteResidentsRow(db, rid) ==
    LET meds == {m \in db.medications : m.resident_id = rid}
    IN  [db EXCEPT
            !.residents = {r \in @ : r.id # rid},
            !.medications = @ \ meds,
            !.medication_log =
                {l \in @ : l.resident_id # rid
                           /\ \A m \in meds : l.medication_id # m.id}]

\* medication_log.administered_by is NOT NULL with ON DELETE SET NULL: the
\* delete of a profile that administered a dose is an error.
ProfileDeleteFails(db, pid) ==
    \E l \in db.medication_log : l.administered_by = pid

RECURSIVE DeleteResidentsRows(_, _)
DeleteResidentsRows(db, rids) ==
    IF rids = {} THEN db
    ELSE LET rid == CHOOSE r \in rids : TRUE
         IN  DeleteResidentsRows(DeleteResidentsRow(db, rid), rids \ {rid})

\* DELETE FROM profiles WHERE id = pid, with the ON DELETE CASCADE of
\* residents.profile_id, staff.profile_id and chat_messages.
DeleteProfilesRow(db, pid) ==
    LET rids == {r.id : r \in {x \in db.residents : x.profile_id = pid}}
        db1 == DeleteResidentsRows(db, rids)
    IN  [db1 EXCEPT
            !.profiles = [p \in DOMAIN @ \ {pid} |-> @[p]],
            !.staff = {s \in @ : s.profile_id # pid},
            !.chat_messages =
                {m \in @ : m.sender_id # pid /\ m.receiver_id # pid}]

\* No channel: the value of a ref or a closure that holds none.
NoChannel == [by |-> "none", topic |-> <<>>]

\* A row of the notifications table.
Notification(id, user_id, read) == [id |-> id, user_id |-> user_id, read |-> read]

NotificationIds == 1..MaxNotifications

\* The request of the notifications popover that is in flight: the select
\* of the recent rows, or the update of the rows with the given ids.
PopoverRequest(kind, user, ids) == [kind |-> kind, user |-> user, ids |-> ids]

NoPopoverRequest == PopoverRequest("none", Null, {})

\* ------------------------------------------------------------------------
\* State
\* ------------------------------------------------------------------------
VARIABLES
    schemaVersion,   \* number of migrations applied after the initial schema
    policies,        \* the installed row-level policies
    fixResult,       \* whether fixProfilesPolicy has executed its SQL
    profiles,        \* profiles table: id -> [role, status]
    chat_messages,   \* chat_messages table (sender_id, receiver_id)
    request,         \* the request the route gate evaluated last
    response,        \* the route gate's answer to it
    auth_users,      \* ids of the identities created by supabase.auth.signUp
    residents,       \* residents table (id, profile_id)
    staff,           \* staff table (profile_id)
    medications,     \* medications table (id, resident_id)
    medication_log,  \* medication_log table
    toast,           \* the toast the last create/delete handler ended with
    authUser,        \* user of useAuth: the signed-in user of the client, or Null
    layoutMounted,   \* DashboardLayout is mounted
    notificationsChannelRef,  \* notificationsChannelRef.current
    chatMounted,     \* ChatPage is mounted
    chatPartner,     \* selectedChatPartner of ChatPage, or Null
    chatChannel,     \* the channel held by the cleanup of the ChatPage effect
    channels,        \* the channels of the supabase client
    authProfile,     \* profile of useAuth: the id of the profile row, or Null
    authLoading,     \* loading of useAuth
    listenerFetches, \* per user, the listener callbacks awaiting the profile
    getSessionPending,  \* the initial getSession() has not resolved
    initialFetch,    \* the user whose initial profile fetch is in flight
    messages,        \* messages of ChatPage: the displayed chat_messages rows
    messageFetches,  \* the fetchMessages calls awaiting their query
    newMessage,      \* newMessage of ChatPage: the text of the input
    isSending,       \* isSending of ChatPage
    inserts,         \* the chat_messages inserts of ChatPage in flight
    deliveries,      \* realtime INSERT payloads on their way to a channel
    location,        \* the URL of the browser: path and redirectedFrom
    navigation,      \* where the navigation of the browser stands
    sessionState,    \* the cookies, the session the server sees, the client's
    notifications,   \* notifications table (id, user_id, read)
    unreadCount,     \* unreadCount of DashboardLayout: the badge
    countFetches,    \* the users whose fetchUnreadCount is in flight
    notificationDeliveries,  \* realtime INSERT payloads on their way
    recentNotifications,     \* recentNotifications of DashboardLayout
    popoverRequest,  \* the request of the notifications popover in flight
    notificationsPageMounted,  \* NotificationsPage is mounted
    pageNotifications,         \* notifications of NotificationsPage: its list
    pageRequests,    \* the requests of NotificationsPage in flight
    signInState,     \* AuthService.signIn: where the call is
    signInPromise,   \* signInWithPassword(): what it settled with
    signInTimeout,   \* the 10 s timer of signIn
    isAuthenticatedState,  \* AuthService.isAuthenticated: where the call is
    isAuthenticatedValue,  \* the boolean it resolved to
    authCheckPromise,      \* getSession(): what it settled with
    timeoutPromise   \* the 3 s timer of isAuthenticated

rlsVars == <<schemaVersion, policies, fixResult, profiles, chat_messages>>

gateVars == <<request, response>>

dataVars == <<auth_users, residents, staff, medications, medication_log, toast>>

realtimeVars ==
    <<authUser, layoutMounted, notificationsChannelRef, chatMounted,
      chatPartner, chatChannel, channels>>

authVars ==
    <<authProfile, authLoading, listenerFetches, getSessionPending,
      initialFetch>>

chatPageVars ==
    <<messages, messageFetches, newMessage, isSending, inserts, deliveries>>

navVars == <<location, navigation, sessionState>>

badgeVars ==
    <<unreadCount, countFetches, notificationDeliveries, recentNotifications,
      popoverRequest>>

notificationsPageVars ==
    <<notificationsPageMounted, pageNotifications, pageRequests>>

\* The calls of AuthService.
serviceVars ==
    <<signInState, signInPromise, signInTimeout, isAuthenticatedState,
      isAuthenticatedValue, authCheckPromise, timeoutPromise>>

\* The state of the pages and of AuthService, and the notifications table
\* the pages show.
pageVars ==
    <<chatPageVars, navVars, notifications, badgeVars, notificationsPageVars,
      serviceVars>>

\* The state of the pages but one; the badge and the notifications page
\* name the notifications table themselves.
pagesButChat ==
    <<navVars, notifications, badgeVars, notificationsPageVars, serviceVars>>
pagesButNav ==
    <<chatPageVars, notifications, badgeVars, notificationsPageVars,
      serviceVars>>
pagesButBadge == <<chatPageVars, navVars, notificationsPageVars, serviceVars>>
pagesButNotificationsPage == <<chatPageVars, navVars, badgeVars, serviceVars>>
pagesButService ==
    <<chatPageVars, navVars, notifications, badgeVars, notificationsPageVars>>

\* The state of the client components.
clientVars == <<authVars, pageVars>>

\* The state the policies do not read.
appVars == <<gateVars, dataVars, realtimeVars, clientVars>>

vars == <<rlsVars, appVars>>

\* Positions of the migrations in the order they are applied.
TempChatVersion == 1
SoftDeleteVersion == 2
RestoreChatVersion == 3
ProfileInsertVersion == 4
MedicationLogVersion == 5
DecoupleVersion == 6

TypeOK ==
    /\ schemaVersion \in 0..DecoupleVersion
    /\ fixResult \in {"not_run", "fixed", "manual"}
    /\ DOMAIN profiles \subseteq Ids \cup NewIds
    /\ \A p \in DOMAIN profiles :
          profiles[p] \in [role : Roles, status : Statuses \cup {"NULL"}]
    /\ auth_users \subseteq NewIds
    /\ \A r \in residents : r.profile_id \in Ids \cup NewIds
    /\ \A l \in medication_log : \E m \in medications : l.medication_id = m.id
    /\ \A m \in chat_messages : m.sender_id \in Ids /\ m.receiver_id \in Ids
    /\ Cardinality(chat_messages) <= MaxMessages

\* The initial schema: tables, policies and seed profiles.
Init ==
    /\ schemaVersion = 0
    /\ policies = Installed(InitialSchemaPolicies)
    /\ fixResult = "not_run"
    /\ profiles = [p \in Ids |-> [role |-> SeedRole(p), status |-> "NULL"]]
    /\ chat_messages = {}
    /\ request = NoRequest
    /\ response = NoResponse
    /\ auth_users = {}
    /\ residents = SeedResidents
    /\ staff = SeedStaff
    /\ medications = {}
    /\ medication_log = {}
    /\ toast = NoToast
    /\ authUser = Null
    /\ layoutMounted = FALSE
    /\ notificationsChannelRef = NoChannel
    /\ chatMounted = FALSE
    /\ chatPartner = Null
    /\ chatChannel = NoChannel
    /\ channels = {}
    /\ authProfile = Null
    /\ authLoading = TRUE
    /\ listenerFetches = [u \in Ids |-> 0]
    /\ getSessionPending = TRUE
    /\ initialFetch = Null
    /\ messages = {}
    /\ messageFetches = {}
    /\ newMessage = ""
    /\ isSending = FALSE
    /\ inserts = <<>>
    /\ deliveries = {}
    /\ location = NoLocation
    /\ navigation = "idle"
    /\ sessionState = NoSessionState
    /\ notifications = {}
    /\ unreadCount = 0
    /\ countFetches = {}
    /\ notificationDeliveries = {}
    /\ recentNotifications = {}
    /\ popoverRequest = NoPopoverRequest
    /\ notificationsPageMounted = FALSE
    /\ pageNotifications = {}
    /\ pageRequests = {}
    /\ signInState = "idle"
    /\ signInPromise = "none"
    /\ signInTimeout = "unset"
    /\ isAuthenticatedState = "idle"
    /\ isAuthenticatedValue = FALSE
    /\ authCheckPromise = "none"
    /\ timeoutPromise = "unset"

\* ------------------------------------------------------------------------
\* Migrations
\* ------------------------------------------------------------------------
ApplyTempAllowAllChatSelect ==
    /\ schemaVersion = TempChatVersion - 1
    /\ schemaVersion' = TempChatVersion
    /\ policies' =
          CreatePolicy(
              DropPolicy(policies, "Users can view their own messages",
                         "chat_messages"),
              TempAllowAllChatSelect)
    /\ UNCHANGED <<fixResult, profiles, chat_messages>>
    /\ UNCHANGED appVars

ApplyAddSoftDelete ==
    /\ schemaVersion = SoftDeleteVersion - 1
    /\ schemaVersion' = SoftDeleteVersion
    /\ profiles' = [p \in DOMAIN profiles |->
          IF profiles[p].status = "NULL"
          THEN [profiles[p] EXCEPT !.status = "active"]
          ELSE profiles[p]]
    /\ UNCHANGED <<policies, fixResult, chat_messages>>
    /\ UNCHANGED appVars

\* Variant of the restore migration that leaves the temporary policy in place.
ApplyRestoreChatRls_KeepTemp ==
    /\ schemaVersion = RestoreChatVersion - 1
    /\ schemaVersion' = RestoreChatVersion
    /\ policies' =
          CreatePolicy(
              DropPolicy(CreatePolicy(policies, ViewOwnMessagesRestored),
                         "Users can create messages", "chat_messages"),
              CreateMessagesRestored)
    /\ UNCHANGED <<fixResult, profiles, chat_messages>>
    /\ UNCHANGED appVars

ApplyRestoreChatRls ==
    /\ schemaVersion = RestoreChatVersion - 1
    /\ schemaVersion' = RestoreChatVersion
    /\ policies' =
          CreatePolicy(
              DropPolicy(
                  CreatePolicy(
                      DropPolicy(policies,
                          "TEMP - Allow any authenticated user to select all messages",
                          "chat_messages"),
                      ViewOwnMessagesRestored),
                  "Users can create messages", "chat_messages"),
              CreateMessagesRestored)
    /\ UNCHANGED <<fixResult, profiles, chat_messages>>
    /\ UNCHANGED appVars

ApplyAllowProfileInsert ==
    /\ schemaVersion = ProfileInsertVersion - 1
    /\ schemaVersion' = ProfileInsertVersion
    /\ policies' = CreatePolicy(policies, AllowProfileInsert)
    /\ UNCHANGED <<fixResult, profiles, chat_messages>>
    /\ UNCHANGED appVars

ApplyCreateMedicationLog ==
    /\ schemaVersion = MedicationLogVersion - 1
    /\ schemaVersion' = MedicationLogVersion
    /\ policies' =
          CreatePolicy(CreatePolicy(policies, ViewMedicationLogs),
                       InsertMedicationLogs)
    /\ UNCHANGED <<fixResult, profiles, chat_messages>>
    /\ UNCHANGED appVars

ApplyDecoupleProfiles ==
    /\ schemaVersion = DecoupleVersion - 1
    /\ schemaVersion' = DecoupleVersion
    /\ UNCHANGED <<policies, fixResult, profiles, chat_messages>>
    /\ UNCHANGED appVars

\* scripts: fixProfilesPolicy.  The policies change only when the exec_sql
\* call succeeds; otherwise the script prints SQL to run by hand.
fixProfilesPolicy(rpcOk) ==
    /\ IF rpcOk
       THEN /\ policies' =
                  CreatePolicy(
                      DropPolicy(
                          CreatePolicy(
                              DropPolicy(policies,
                                         "Admins can view all profiles",
                                         "profiles"),
                              AdminsViewAllProfilesFixed),
                          "Admins can update any profile", "profiles"),
                      AdminsUpdateAnyProfile)
            /\ fixResult' = "fixed"
       ELSE /\ fixResult' = IF fixResult = "fixed" THEN "fixed" ELSE "manual"
            /\ UNCHANGED policies
    /\ UNCHANGED <<schemaVersion, profiles, chat_messages>>
    /\ UNCHANGED appVars

\* ------------------------------------------------------------------------
\* Client operations
\* ------------------------------------------------------------------------
\* StaffPage.fetchStaff: the profiles the caller can see with role STAFF or
\* ADMIN; the status filter is commented out.
fetchStaff(pols, pf, uid) ==
    {p \in DOMAIN pf :
        /\ Permitted(pols, pf, uid, "profiles", "SELECT", ProfileRow(p))
        /\ pf[p].role \in {"STAFF", "ADMIN"}}

\* UpdateStaffDialog.onSubmit: update({full_name, role}).eq('id', staffMember.id)
\* A row the UPDATE policies do not cover is left as it is, without an error.
UpdateStaffDialogOnSubmit(uid, staffMember, role) ==
    /\ staffMember \in fetchStaff(policies, profiles, uid)
    /\ role \in {"STAFF", "ADMIN"}
    /\ profiles' =
          IF Permitted(policies, profiles, uid, "profiles", "UPDATE",
                       ProfileRow(staffMember))
          THEN [profiles EXCEPT ![staffMember].role = role]
          ELSE profiles
    /\ UNCHANGED <<schemaVersion, policies, fixResult, chat_messages>>
    /\ UNCHANGED appVars

NumInactive(pf) == Cardinality({p \in DOMAIN pf : pf[p].status = "inactive"})

\* A client update of profiles.status (the soft delete the pages keep
\* commented out), subject to the UPDATE policies and the status check.
UpdateProfileStatus(uid, target, status) ==
    /\ schemaVersion >= SoftDeleteVersion
    /\ status \in Statuses
    /\ Permitted(policies, profiles, uid, "profiles", "UPDATE",
                 ProfileRow(target))
    /\ profiles' = [profiles EXCEPT ![target].status = status]
    /\ NumInactive(profiles') <= MaxInactive
    /\ UNCHANGED <<schemaVersion, policies, fixResult, chat_messages>>
    /\ UNCHANGED appVars

\* ChatPage.fetchProfiles: the chat partners offered to the user.
fetchProfiles(pols, pf, user) ==
    {p \in DOMAIN pf :
        /\ Permitted(pols, pf, user, "profiles", "SELECT", ProfileRow(p))
        /\ pf[p].role \in {"ADMIN", "STAFF", "FAMILY"}
        /\ p # user}

\* ChatPage.handleSendMessage: insert({sender_id: user.id, receiver_id: partner.id})
handleSendMessage(user, selectedChatPartner) ==
    /\ user \in Ids
    /\ selectedChatPartner \in fetchProfiles(policies, profiles, user)
    /\ Permitted(policies, profiles, user, "chat_messages", "INSERT",
                 ChatRow(user, selectedChatPartner))
    /\ chat_messages' = chat_messages \cup {ChatRow(user, selectedChatPartner)}
    /\ Cardinality(chat_messages') <= MaxMessages
    /\ UNCHANGED <<schemaVersion, policies, fixResult, profiles>>
    /\ UNCHANGED appVars

Next ==
    \/ ApplyTempAllowAllChatSelect
    \/ ApplyAddSoftDelete
    \/ ApplyRestoreChatRls
    \/ ApplyAllowProfileInsert
    \/ ApplyCreateMedicationLog
    \/ ApplyDecoupleProfiles
    \/ \E rpcOk \in BOOLEAN : fixProfilesPolicy(rpcOk)
    \/ \E uid \in Ids, staffMember \in Ids, role \in Roles :
          UpdateStaffDialogOnSubmit(uid, staffMember, role)
    \/ \E uid \in Actors, target \in Ids, status \in Statuses :
          UpdateProfileStatus(uid, target, status)

\* The policies and the profiles they read: migrations, the fix script and
\* the client operations that write profiles.
Spec == Init /\ [][Next]_vars

NextChat ==
    \/ Next
    \/ \E user \in Ids, partner \in Ids : handleSendMessage(user, partner)

\* The same, with users sending chat messages.
SpecChat == Init /\ [][NextChat]_vars

\* middleware(request): one evaluation of the route gate.  The first call of
\* getSession() only refreshes the session: its result is dropped, an
\* exception it throws is not caught.
middleware(path, cookies, refresh, getSession, profileQuery) ==
    /\ request' = [path |-> path, cookies |-> cookies, refresh |-> refresh,
                   getSession |-> getSession, profileQuery |-> profileQuery]
    /\ response' = Respond(policies, profiles, path, cookies, refresh,
                           getSession, profileQuery)
    /\ UNCHANGED <<rlsVars, dataVars, realtimeVars, clientVars>>

\* The outcomes of the calls the gate awaits for a request: a call that is
\* not reached has no outcome, and its input is left at "ok".
SessionFetchReached(path, cookies, refresh) ==
    /\ refresh = "ok"
    /\ ~IsPublicAsset(path) /\ ~IsAuthRoute(path)
    /\ isProtectedRoute(path)
    /\ ~hasAuthCookie(cookies)

SessionResultsFor(path, cookies, refresh) ==
    IF SessionFetchReached(path, cookies, refresh)
    THEN SessionResults
    ELSE {NoRequest.getSession}

ProfileQueryOutcomesFor(path, cookies, refresh, getSession) ==
    IF SessionFetchReached(path, cookies, refresh) /\ getSession.user # Null
    THEN CallOutcomes
    ELSE {"ok"}

NextGate ==
    \/ \E path \in Paths, cookies \in CookieJars, refresh \in {"ok", "throws"} :
          \E getSession \in SessionResultsFor(path, cookies, refresh) :
            \E profileQuery \in
                  ProfileQueryOutcomesFor(path, cookies, refresh, getSession) :
                middleware(path, cookies, refresh, getSession, profileQuery)
    \/ \E uid \in Ids, staffMember \in Ids, role \in Roles :
          UpdateStaffDialogOnSubmit(uid, staffMember, role)

\* The route gate, with the profile roles it reads being edited.
SpecGate == Init /\ [][NextGate]_vars

\* ------------------------------------------------------------------------
\* Navigation: the route gate and the login page
\* ------------------------------------------------------------------------
\* The user opens a path in a browser whose session state stays as it is
\* until the navigation has settled.
Navigate(path, cookies, server, client) ==
    /\ navigation = "idle"
    /\ location' = Url(path, <<>>)
    /\ sessionState' = SessionState(cookies, server, client)
    /\ navigation' = "requested"
    /\ UNCHANGED <<rlsVars, gateVars, dataVars, realtimeVars, authVars, pagesButNav>>

\* The browser requests its URL: the gate answers, and the browser renders
\* the page or follows the redirect.
BrowserRequest ==
    LET getSession == [outcome |-> "ok", user |-> sessionState.server]
        res == Respond(policies, profiles, location.path, sessionState.cookies,
                       "ok", getSession, "ok")
    IN  /\ navigation = "requested"
        /\ request' = [path |-> location.path, cookies |-> sessionState.cookies,
                       refresh |-> "ok", getSession |-> getSession,
                       profileQuery |-> "ok"]
        /\ response' = res
        /\ location' =
              IF res.kind = "redirect" THEN Url(res.to, res.redirectedFrom)
              ELSE location
        /\ navigation' =
              IF res.kind = "redirect" THEN "requested" ELSE "rendered"
        /\ UNCHANGED sessionState
        /\ UNCHANGED <<rlsVars, dataVars, realtimeVars, authVars, pagesButNav>>

\* LoginPage.checkAuthentication: with a session on the client the browser
\* is sent to redirectPath, otherwise the login form is shown.
LoginPageCheckAuthentication ==
    /\ navigation = "rendered"
    /\ location.path = <<"/", "login">>
    /\ location' =
          IF sessionState.client THEN Url(redirectPath(location), <<>>)
          ELSE location
    /\ navigation' = IF sessionState.client THEN "requested" ELSE "settled"
    /\ UNCHANGED sessionState
    /\ UNCHANGED <<rlsVars, gateVars, dataVars, realtimeVars, authVars, pagesButNav>>

\* A page other than the login page is shown.
PageShown ==
    /\ navigation = "rendered"
    /\ location.path # <<"/", "login">>
    /\ navigation' = "settled"
    /\ UNCHANGED <<location, sessionState>>
    /\ UNCHANGED <<rlsVars, gateVars, dataVars, realtimeVars, authVars, pagesButNav>>

NextNavigation ==
    \/ \E path \in Paths, cookies \in CookieJars, server \in Actors, client \in BOOLEAN :
          Navigate(path, cookies, server, client)
    \/ BrowserRequest
    \/ LoginPageCheckAuthentication
    \/ PageShown

\* One browser navigating: every request it sends is answered and every
\* page it renders runs its check.
SpecNavigation ==
    /\ Init /\ [][NextNavigation]_vars
    /\ WF_vars(BrowserRequest)
    /\ WF_vars(LoginPageCheckAuthentication)
    /\ WF_vars(PageShown)

\* ------------------------------------------------------------------------
\* Client flows that create and delete rows
\* ------------------------------------------------------------------------
\* The tables the flows write, as one record.
Db ==
    [profiles |-> profiles, residents |-> residents, staff |-> staff,
     medications |-> medications, medication_log |-> medication_log,
     chat_messages |-> chat_messages]

SetDb(db) ==
    /\ profiles' = db.profiles
    /\ residents' = db.residents
    /\ staff' = db.staff
    /\ medications' = db.medications
    /\ medication_log' = db.medication_log
    /\ chat_messages' = db.chat_messages

UsedIds == DOMAIN profiles \cup auth_users

\* profiles.email is UNIQUE and CreateResidentDialog inserts email '': the
\* profiles it created are the ones with neither a seed id nor an identity.
EmptyEmailTaken == \E p \in DOMAIN profiles : p \notin Ids /\ p \notin auth_users

WithProfile(pf, id, role) ==
    pf @@ (id :> NewProfile(schemaVersion >= SoftDeleteVersion, role))

\* Variant of CreateResidentDialog.onSubmit that deletes the profile when
\* the resident insert fails.
CreateResidentDialogOnSubmit_Cleanup(uid, profileOk, residentOk) ==
    LET id == FreshId(UsedIds)
        pf == WithProfile(profiles, id, "RESIDENT")
        created == /\ profileOk
                   /\ ~EmptyEmailTaken
                   /\ ProfileInsertPermitted(policies, pf, uid, id, TRUE)
        linked == /\ residentOk
                  /\ Permitted(policies, pf, uid, "residents", "INSERT",
                               ResidentRow(id))
    IN  /\ NewIds \ UsedIds # {}
        /\ profiles' = IF created /\ linked THEN pf ELSE profiles
        /\ residents' =
              IF created /\ linked
              THEN residents \cup {[id |-> id, profile_id |-> id]}
              ELSE residents
        /\ toast' = Toast("CreateResidentDialog",
                          IF ~created THEN 1 ELSE IF ~linked THEN 2 ELSE 0,
                          IF created THEN id ELSE Null)
        /\ UNCHANGED <<schemaVersion, policies, fixResult, chat_messages>>
        /\ UNCHANGED <<auth_users, staff, medications, medication_log>>
        /\ UNCHANGED <<gateVars, realtimeVars, clientVars>>

\* CreateResidentDialog.onSubmit: insert the profile (role RESIDENT, id
\* generated by the database), then insert the residents row; an error at
\* either step ends the handler with an error toast.
CreateResidentDialogOnSubmit(uid, profileOk, residentOk) ==
    LET id == FreshId(UsedIds)
        pf == WithProfile(profiles, id, "RESIDENT")
        created == /\ profileOk
                   /\ ~EmptyEmailTaken
                   /\ ProfileInsertPermitted(policies, pf, uid, id, TRUE)
        linked == /\ residentOk
                  /\ Permitted(policies, pf, uid, "residents", "INSERT",
                               ResidentRow(id))
    IN  /\ NewIds \ UsedIds # {}
        /\ profiles' = IF created THEN pf ELSE profiles
        /\ residents' =
              IF created /\ linked
              THEN residents \cup {[id |-> id, profile_id |-> id]}
              ELSE residents
        /\ toast' = Toast("CreateResidentDialog",
                          IF ~created THEN 1 ELSE IF ~linked THEN 2 ELSE 0,
                          IF created THEN id ELSE Null)
        /\ UNCHANGED <<schemaVersion, policies, fixResult, chat_messages>>
        /\ UNCHANGED <<auth_users, staff, medications, medication_log>>
        /\ UNCHANGED <<gateVars, realtimeVars, clientVars>>

\* The caller of the requests that follow supabase.auth.signUp.
CallerAfterSignUp(uid, signUpResult, id) ==
    IF signUpResult = "session" THEN id ELSE uid

\* Variant of CreateStaffDialog.onSubmit that removes the identity and the
\* profile when a later step fails.
CreateStaffDialogOnSubmit_Rollback(uid, signUpResult, profileOk, staffOk) ==
    LET id == FreshId(UsedIds)
        caller == CallerAfterSignUp(uid, signUpResult, id)
        pf == WithProfile(profiles, id, "STAFF")
        signedUp == signUpResult # "error"
        created == /\ signedUp /\ profileOk
                   /\ ProfileInsertPermitted(policies, pf, caller, id, TRUE)
        linked == /\ created /\ staffOk
                  /\ Permitted(policies, pf, caller, "staff", "INSERT",
                               ResidentRow(id))
    IN  /\ NewIds \ UsedIds # {}
        /\ auth_users' = IF linked THEN auth_users \cup {id} ELSE auth_users
        /\ profiles' = IF linked THEN pf ELSE profiles
        /\ staff' = IF linked THEN staff \cup {[profile_id |-> id]} ELSE staff
        /\ toast' = Toast("CreateStaffDialog",
                          CASE ~signedUp -> 1 [] ~created -> 2
                            [] ~linked -> 3 [] OTHER -> 0,
                          IF signedUp THEN id ELSE Null)
        /\ UNCHANGED <<schemaVersion, policies, fixResult, chat_messages>>
        /\ UNCHANGED <<residents, medications, medication_log>>
        /\ UNCHANGED <<gateVars, realtimeVars, clientVars>>

\* CreateStaffDialog.onSubmit: sign the new user up, insert the profile with
\* the id of the identity (role STAFF), insert the staff row.
CreateStaffDialogOnSubmit(uid, signUpResult, profileOk, staffOk) ==
    LET id == FreshId(UsedIds)
        caller == CallerAfterSignUp(uid, signUpResult, id)
        pf == WithProfile(profiles, id, "STAFF")
        signedUp == signUpResult # "error"
        created == /\ signedUp /\ profileOk
                   /\ ProfileInsertPermitted(policies, pf, caller, id, TRUE)
        linked == /\ created /\ staffOk
                  /\ Permitted(policies, pf, caller, "staff", "INSERT",
                               ResidentRow(id))
    IN  /\ NewIds \ UsedIds # {}
        /\ auth_users' = IF signedUp THEN auth_users \cup {id} ELSE auth_users
        /\ profiles' = IF created THEN pf ELSE profiles
        /\ staff' = IF linked THEN staff \cup {[profile_id |-> id]} ELSE staff
        /\ toast' = Toast("CreateStaffDialog",
                          CASE ~signedUp -> 1 [] ~created -> 2
                            [] ~linked -> 3 [] OTHER -> 0,
                          IF signedUp THEN id ELSE Null)
        /\ UNCHANGED <<schemaVersion, policies, fixResult, chat_messages>>
        /\ UNCHANGED <<residents, medications, medication_log>>
        /\ UNCHANGED <<gateVars, realtimeVars, clientVars>>

\* CreateFamilyDialog.onSubmit: sign the new user up, insert the profile
\* with the id of the identity (role FAMILY); the link to a resident is not
\* implemented.
CreateFamilyDialogOnSubmit(uid, signUpResult, profileOk) ==
    LET id == FreshId(UsedIds)
        caller == CallerAfterSignUp(uid, signUpResult, id)
        pf == WithProfile(profiles, id, "FAMILY")
        signedUp == signUpResult # "error"
        created == /\ signedUp /\ profileOk
                   /\ ProfileInsertPermitted(policies, pf, caller, id, TRUE)
    IN  /\ NewIds \ UsedIds # {}
        /\ auth_users' = IF signedUp THEN auth_users \cup {id} ELSE auth_users
        /\ profiles' = IF created THEN pf ELSE profiles
        /\ toast' = Toast("CreateFamilyDialog",
                          CASE ~signedUp -> 1 [] ~created -> 2 [] OTHER -> 0,
                          IF signedUp THEN id ELSE Null)
        /\ UNCHANGED <<schemaVersion, policies, fixResult, chat_messages>>
        /\ UNCHANGED <<residents, staff, medications, medication_log>>
        /\ UNCHANGED <<gateVars, realtimeVars, clientVars>>

\* useAuth signUp(email, password, fullName, role), called by a visitor who
\* is not signed in: sign up, then insert the profile (no .select()).  In
\* mock mode only local state is set.
signUp(role, isMockMode, signUpResult, profileOk) ==
    LET id == FreshId(UsedIds)
        caller == CallerAfterSignUp(Null, signUpResult, id)
        pf == WithProfile(profiles, id, role)
        signedUp == ~isMockMode /\ signUpResult # "error"
        created == /\ signedUp /\ profileOk
                   /\ ProfileInsertPermitted(policies, pf, caller, id, FALSE)
    IN  /\ NewIds \ UsedIds # {}
        /\ auth_users' = IF signedUp THEN auth_users \cup {id} ELSE auth_users
        /\ profiles' = IF created THEN pf ELSE profiles
        /\ toast' = Toast("signUp",
                          CASE isMockMode -> 0 [] ~signedUp -> 1
                            [] ~created -> 2 [] OTHER -> 0,
                          IF signedUp THEN id ELSE Null)
        /\ UNCHANGED <<schemaVersion, policies, fixResult, chat_messages>>
        /\ UNCHANGED <<residents, staff, medications, medication_log>>
        /\ UNCHANGED <<gateVars, realtimeVars, clientVars>>

\* ResidentsPage.fetchResidents: the residents rows shown to the caller.
fetchResidents(pols, pf, uid, rows) ==
    {r \in rows :
        Permitted(pols, pf, uid, "residents", "SELECT", ResidentRow(r.profile_id))}

\* UpdateResidentDialog.onSubmit: update full_name and email of the profile,
\* then the details of the residents row; no key and no role is written.
UpdateResidentDialogOnSubmit(uid, resident, profileOk, residentOk) ==
    /\ resident \in fetchResidents(policies, profiles, uid, residents)
    /\ toast' = Toast("UpdateResidentDialog",
                      IF ~profileOk THEN 1 ELSE IF ~residentOk THEN 2 ELSE 0,
                      resident.id)
    /\ UNCHANGED <<rlsVars, gateVars, realtimeVars, clientVars>>
    /\ UNCHANGED <<auth_users, residents, staff, medications, medication_log>>

\* ResidentsPage.handleDelete(residentId, profileId): delete the residents
\* row, then the profile; an error of the second delete is only reported.
ResidentsPageHandleDelete(uid, resident, residentOk, profileOk) ==
    LET pid == resident.profile_id
        db1 == IF DeletePermitted(policies, profiles, uid, "residents",
                                  ResidentRow(pid))
               THEN DeleteResidentsRow(Db, resident.id)
               ELSE Db
        covered == /\ pid \in DOMAIN db1.profiles
                   /\ DeletePermitted(policies, db1.profiles, uid, "profiles",
                                      ProfileRow(pid))
        profileError == ~profileOk \/ (covered /\ ProfileDeleteFails(db1, pid))
    IN  /\ resident \in fetchResidents(policies, profiles, uid, residents)
        /\ IF pid = Null \/ ~residentOk
           THEN /\ SetDb(Db)
                /\ toast' = Toast("ResidentsPage.handleDelete", 1, resident.id)
           ELSE IF profileError
           THEN /\ SetDb(db1)
                /\ toast' = Toast("ResidentsPage.handleDelete", 2, resident.id)
           ELSE /\ SetDb(IF covered THEN DeleteProfilesRow(db1, pid) ELSE db1)
                /\ toast' = Toast("ResidentsPage.handleDelete", 0, resident.id)
        /\ UNCHANGED <<schemaVersion, policies, fixResult, auth_users>>
        /\ UNCHANGED <<gateVars, realtimeVars, clientVars>>

\* StaffPage.handleDelete(id): the hard delete of a profile.
StaffPageHandleDelete(uid, id, deleteOk) ==
    LET covered == DeletePermitted(policies, profiles, uid, "profiles",
                                   ProfileRow(id))
        error == ~deleteOk \/ (covered /\ ProfileDeleteFails(Db, id))
    IN  /\ id \in fetchStaff(policies, profiles, uid)
        /\ SetDb(IF covered /\ ~error THEN DeleteProfilesRow(Db, id) ELSE Db)
        /\ toast' = Toast("StaffPage.handleDelete",
                          IF error THEN 1 ELSE 0, id)
        /\ UNCHANGED <<schemaVersion, policies, fixResult, auth_users>>
        /\ UNCHANGED <<gateVars, realtimeVars, clientVars>>

\* CreateMedicationDialog.onSubmit: insert({resident_id, ...}).  A resident
\* has one medication here, named by the id of the resident.
CreateMedicationDialogOnSubmit(uid, resident, insertOk) ==
    LET ok == /\ insertOk
              /\ Permitted(policies, profiles, uid, "medications", "INSERT",
                           ResidentRow(Null))
    IN  /\ resident \in fetchResidents(policies, profiles, uid, residents)
        /\ medications' =
              IF ok
              THEN medications
                   \cup {[id |-> resident.id, resident_id |-> resident.id]}
              ELSE medications
        /\ toast' = Toast("CreateMedicationDialog",
                          IF ok THEN 0 ELSE 1, resident.id)
        /\ UNCHANGED <<rlsVars, gateVars, realtimeVars, clientVars>>
        /\ UNCHANGED <<auth_users, residents, staff, medication_log>>

\* LogMedicationDoseDialog.onSubmit: insert({medication_id, resident_id,
\* administered_by: user.id, ...}) into medication_log.
LogMedicationDoseDialogOnSubmit(user, medication, insertOk) ==
    LET row == [medication_id |-> medication.id,
                resident_id |-> medication.resident_id,
                administered_by |-> user]
        ok == /\ insertOk
              /\ schemaVersion >= MedicationLogVersion
              /\ Permitted(policies, profiles, user, "medication_log",
                           "INSERT", MedicationLogRow(user))
    IN  /\ user # Null
        /\ medication \in medications
        /\ medication_log' =
              IF ok THEN medication_log \cup {row} ELSE medication_log
        /\ toast' = Toast("LogMedicationDoseDialog",
                          IF ok THEN 0 ELSE 1, medication.id)
        /\ UNCHANGED <<rlsVars, gateVars, realtimeVars, clientVars>>
        /\ UNCHANGED <<auth_users, residents, staff, medications>>

\* The outcome of a call the handler makes only after the calls before it
\* succeeded: a call that is not reached has no outcome.
OutcomesAfter(reached) == IF reached THEN BOOLEAN ELSE {TRUE}

NextData ==
    \/ ApplyTempAllowAllChatSelect
    \/ ApplyAddSoftDelete
    \/ ApplyRestoreChatRls
    \/ ApplyAllowProfileInsert
    \/ ApplyCreateMedicationLog
    \/ ApplyDecoupleProfiles
    \/ \E uid \in Actors, profileOk \in BOOLEAN :
          \E residentOk \in OutcomesAfter(profileOk) :
            CreateResidentDialogOnSubmit(uid, profileOk, residentOk)
    \/ \E uid \in Actors, signUpResult \in SignUpResults :
          \E profileOk \in OutcomesAfter(signUpResult # "error") :
            \E staffOk \in OutcomesAfter(signUpResult # "error" /\ profileOk) :
              CreateStaffDialogOnSubmit(uid, signUpResult, profileOk, staffOk)
    \/ \E uid \in Actors, signUpResult \in SignUpResults :
          \E profileOk \in OutcomesAfter(signUpResult # "error") :
            CreateFamilyDialogOnSubmit(uid, signUpResult, profileOk)
    \/ \E role \in Roles, isMockMode \in BOOLEAN :
          \E signUpResult \in (IF isMockMode THEN {"user"} ELSE SignUpResults) :
            \E profileOk \in
                  OutcomesAfter(~isMockMode /\ signUpResult # "error") :
              signUp(role, isMockMode, signUpResult, profileOk)
    \/ \E uid \in Actors, resident \in residents, profileOk \in BOOLEAN :
          \E residentOk \in OutcomesAfter(profileOk) :
            UpdateResidentDialogOnSubmit(uid, resident, profileOk, residentOk)
    \/ \E uid \in Actors, resident \in residents, residentOk \in BOOLEAN :
          \E profileOk \in OutcomesAfter(residentOk) :
            ResidentsPageHandleDelete(uid, resident, residentOk, profileOk)
    \/ \E uid \in Actors, id \in DOMAIN profiles, deleteOk \in BOOLEAN :
          StaffPageHandleDelete(uid, id, deleteOk)

\* The profiles, identities, residents and staff rows the client flows
\* create and delete, under the policies of the migrations.
SpecData == Init /\ [][NextData]_vars

NextMedicationLog ==
    \/ ApplyTempAllowAllChatSelect
    \/ ApplyAddSoftDelete
    \/ ApplyRestoreChatRls
    \/ ApplyAllowProfileInsert
    \/ ApplyCreateMedicationLog
    \/ ApplyDecoupleProfiles
    \/ \E uid \in Actors, resident \in residents, insertOk \in BOOLEAN :
          CreateMedicationDialogOnSubmit(uid, resident, insertOk)
    \/ \E user \in Actors, medication \in medications, insertOk \in BOOLEAN :
          LogMedicationDoseDialogOnSubmit(user, medication, insertOk)
    \/ \E uid \in Actors, resident \in residents, residentOk \in BOOLEAN :
          \E profileOk \in OutcomesAfter(residentOk) :
            ResidentsPageHandleDelete(uid, resident, residentOk, profileOk)
    \/ \E uid \in Actors, id \in DOMAIN profiles, deleteOk \in BOOLEAN :
          StaffPageHandleDelete(uid, id, deleteOk)

\* The client operations that write medication_log or delete a row it
\* references, under the policies of the migrations.
SpecMedicationLog == Init /\ [][NextMedicationLog]_vars

\* ------------------------------------------------------------------------
\* Realtime channels of the dashboard
\* ------------------------------------------------------------------------
\* supabase.channel("public:notifications:user_id=eq." + user.id)
NotificationsChannel(u) ==
    [by |-> "DashboardLayout",
     topic |-> <<"public:notifications:user_id=eq.", u>>]

\* supabase.channel(`chat-${[user.id, selectedChatPartner.id].sort().join('-')}`)
ChatChannel(u, p) ==
    [by |-> "ChatPage",
     topic |-> <<"chat-", IF u <= p THEN u ELSE p, IF u <= p THEN p ELSE u>>]

\* DashboardLayout, effect on [user]: subscribe the notifications channel of
\* the user and keep it in notificationsChannelRef; nothing without a user.
LayoutEffect(chs, u) ==
    IF u = Null
    THEN [channels |-> chs, ref |-> NoChannel]
    ELSE [channels |-> chs \cup {NotificationsChannel(u)},
          ref |-> NotificationsChannel(u)]

\* ChatPage, effect on [user, selectedChatPartner, currentUserProfile]:
\* subscribe the channel of the conversation.
ChatEffect(chs, u, partner) ==
    IF u = Null \/ partner = Null
    THEN [channels |-> chs, channel |-> NoChannel]
    ELSE [channels |-> chs \cup {ChatChannel(u, partner)},
          channel |-> ChatChannel(u, partner)]

\* supabase.removeChannel(channel)
removeChannel(chs, channel) == chs \ {channel}

\* The state of a ChatPage that is unmounted is gone, and its fetches
\* complete into nothing; the requests it sent are still served.
ChatPageStateDropped ==
    /\ messages' = {}
    /\ messageFetches' = {}
    /\ newMessage' = ""
    /\ isSending' = FALSE
    /\ UNCHANGED <<inserts, deliveries>>

\* DashboardLayout, effect on [user], the badge: setUnreadCount(0) without a
\* user, otherwise fetchUnreadCount() is sent.
BadgeEffect(u) ==
    /\ unreadCount' = IF u = Null THEN 0 ELSE unreadCount
    /\ countFetches' = IF u = Null THEN countFetches ELSE countFetches \cup {u}
    /\ UNCHANGED <<notificationDeliveries, recentNotifications, popoverRequest>>

\* The state of a DashboardLayout that is unmounted is gone, and its
\* requests complete into nothing.
BadgeStateDropped ==
    /\ unreadCount' = 0
    /\ countFetches' = {}
    /\ recentNotifications' = {}
    /\ popoverRequest' = NoPopoverRequest
    /\ UNCHANGED notificationDeliveries

\* A request of NotificationsPage in flight: the fetch of the list, or a
\* write with the list the handler kept for its rollback.
PageRequest(kind, user, id, original) ==
    [kind |-> kind, user |-> user, id |-> id, original |-> original]

\* NotificationsPage, effect on [user]: fetchNotifications() is sent when
\* there is a user.
NotificationsPageEffect(u) ==
    /\ pageRequests' =
          IF u = Null THEN pageRequests
          ELSE pageRequests \cup {PageRequest("fetch", u, Null, {})}
    /\ UNCHANGED <<notificationsPageMounted, pageNotifications>>

\* The state of a NotificationsPage that is unmounted is gone, and its
\* requests complete into nothing.
NotificationsPageStateDropped ==
    /\ notificationsPageMounted' = FALSE
    /\ pageNotifications' = {}
    /\ pageRequests' = {}

\* DashboardLayout is mounted: its effect runs with the current user.
MountLayout ==
    /\ ~layoutMounted
    /\ layoutMounted' = TRUE
    /\ channels' = LayoutEffect(channels, authUser).channels
    /\ notificationsChannelRef' = LayoutEffect(channels, authUser).ref
    /\ BadgeEffect(authUser)
    /\ UNCHANGED <<authUser, chatMounted, chatPartner, chatChannel>>
    /\ UNCHANGED <<rlsVars, gateVars, dataVars, authVars, pagesButBadge, notifications>>

\* DashboardLayout is unmounted, and the page inside it: the cleanup of each
\* effect removes the channel the effect created.
UnmountLayout ==
    /\ layoutMounted
    /\ layoutMounted' = FALSE
    /\ chatMounted' = FALSE
    /\ chatPartner' = Null
    /\ chatChannel' = NoChannel
    /\ notificationsChannelRef' = NoChannel
    /\ channels' =
          removeChannel(removeChannel(channels, chatChannel),
                        notificationsChannelRef)
    /\ ChatPageStateDropped
    /\ BadgeStateDropped
    /\ NotificationsPageStateDropped
    /\ UNCHANGED authUser
    /\ UNCHANGED <<rlsVars, gateVars, dataVars, authVars, navVars, notifications, serviceVars>>

\* setUser(u) of useAuth: the effects that depend on user are cleaned up
\* and run again.
EffectsOnUser(u) ==
    LET chs0 == IF chatMounted THEN removeChannel(channels, chatChannel)
                ELSE channels
        chs1 == IF layoutMounted
                THEN removeChannel(chs0, notificationsChannelRef)
                ELSE chs0
        layout == IF layoutMounted THEN LayoutEffect(chs1, u)
                  ELSE [channels |-> chs1, ref |-> NoChannel]
        chat == IF chatMounted
                THEN ChatEffect(layout.channels, u, chatPartner)
                ELSE [channels |-> layout.channels, channel |-> NoChannel]
    IN  [ref |-> layout.ref, channel |-> chat.channel,
         channels |-> chat.channels]

setUser(u) ==
    /\ authUser' = u
    /\ notificationsChannelRef' = EffectsOnUser(u).ref
    /\ chatChannel' = EffectsOnUser(u).channel
    /\ channels' = EffectsOnUser(u).channels
    /\ IF layoutMounted THEN BadgeEffect(u) ELSE UNCHANGED badgeVars
    /\ IF notificationsPageMounted THEN NotificationsPageEffect(u)
       ELSE UNCHANGED notificationsPageVars
    /\ UNCHANGED <<layoutMounted, chatMounted, chatPartner>>

\* setProfile(p) of useAuth: the effect of ChatPage depends on
\* currentUserProfile and runs again when the profile object changed.
setProfile(p) ==
    LET rerun == chatMounted /\ ~(authProfile = Null /\ p = Null)
        chat == ChatEffect(removeChannel(channels, chatChannel), authUser,
                           chatPartner)
    IN  /\ authProfile' = p
        /\ chatChannel' = IF rerun THEN chat.channel ELSE chatChannel
        /\ channels' = IF rerun THEN chat.channels ELSE channels
        /\ UNCHANGED <<authUser, layoutMounted, notificationsChannelRef,
                       chatMounted, chatPartner>>

\* The listener callbacks that await their profile fetch.
NumListenerFetches == Cardinality({u \in Ids : listenerFetches[u] > 0})

\* from('profiles').select('*').eq('id', u).single(): the row of the user
\* when it exists and the user may select it, otherwise null.
FetchedProfile(pols, pf, u) ==
    IF u \in DOMAIN pf /\ Permitted(pols, pf, u, "profiles", "SELECT", ProfileRow(u))
    THEN u
    ELSE Null

\* useAuth, the onAuthStateChange callback up to its await:
\* setLoading(true), setUser(session?.user ?? null), then the profile fetch
\* is started, or without a user setProfile(null) and setLoading(false).
onAuthStateChange(u) ==
    /\ u # Null =>
          /\ listenerFetches[u] = 0
          /\ NumListenerFetches < MaxFetches
    /\ setUser(u)
    /\ IF u # Null
       THEN /\ authLoading' = TRUE
            /\ listenerFetches' = [listenerFetches EXCEPT ![u] = 1]
            /\ UNCHANGED authProfile
       ELSE /\ authProfile' = Null
            /\ authLoading' = FALSE
            /\ UNCHANGED listenerFetches
    /\ UNCHANGED <<getSessionPending, initialFetch>>
    /\ UNCHANGED <<rlsVars, gateVars, dataVars, chatPageVars, navVars, notifications, serviceVars>>

\* useAuth, the onAuthStateChange callback after its await:
\* setProfile(profileData), setLoading(false).
ListenerProfileFetched(u) ==
    /\ listenerFetches[u] > 0
    /\ listenerFetches' = [listenerFetches EXCEPT ![u] = 0]
    /\ setProfile(FetchedProfile(policies, profiles, u))
    /\ authLoading' = FALSE
    /\ UNCHANGED <<getSessionPending, initialFetch>>
    /\ UNCHANGED <<rlsVars, gateVars, dataVars, pageVars>>

\* useAuth, getSession().then: setUser(session?.user ?? null), the profile
\* fetch is started when there is a user, setLoading(false).
getSessionThen(u) ==
    /\ getSessionPending
    /\ getSessionPending' = FALSE
    /\ setUser(u)
    /\ initialFetch' = u
    /\ authLoading' = FALSE
    /\ UNCHANGED <<authProfile, listenerFetches>>
    /\ UNCHANGED <<rlsVars, gateVars, dataVars, chatPageVars, navVars, notifications, serviceVars>>

\* useAuth, the then of the initial profile fetch: setProfile(data).
InitialProfileFetched ==
    /\ initialFetch # Null
    /\ setProfile(FetchedProfile(policies, profiles, initialFetch))
    /\ initialFetch' = Null
    /\ UNCHANGED <<authLoading, listenerFetches, getSessionPending>>
    /\ UNCHANGED <<rlsVars, gateVars, dataVars, pageVars>>

\* ChatPage is mounted inside the layout, with no partner selected.
MountChatPage ==
    /\ layoutMounted /\ ~chatMounted
    /\ chatMounted' = TRUE
    /\ chatPartner' = Null
    /\ chatChannel' = NoChannel
    /\ UNCHANGED <<authUser, layoutMounted, notificationsChannelRef, channels>>
    /\ UNCHANGED <<rlsVars, gateVars, dataVars, clientVars>>

\* ChatPage is unmounted: the cleanup of its effect removes its channel.
UnmountChatPage ==
    /\ chatMounted
    /\ chatMounted' = FALSE
    /\ chatPartner' = Null
    /\ chatChannel' = NoChannel
    /\ channels' = removeChannel(channels, chatChannel)
    /\ ChatPageStateDropped
    /\ UNCHANGED <<authUser, layoutMounted, notificationsChannelRef>>
    /\ UNCHANGED <<rlsVars, gateVars, dataVars, authVars, pagesButChat>>

\* ChatPage.handleSelectChat(profile): setSelectedChatPartner(profile),
\* supabase.removeAllChannels() on the client the layout shares,
\* fetchMessages(profile.id) up to its await, and, when the partner
\* changed, the effect of the page runs again.
handleSelectChat(profile) ==
    LET chat == IF profile # chatPartner
                THEN ChatEffect({}, authUser, profile)
                ELSE [channels |-> {}, channel |-> chatChannel]
        fetch == [user |-> authUser, partnerId |-> profile]
    IN  /\ chatMounted
        /\ profile \in fetchProfiles(policies, profiles, authUser)
        /\ Cardinality(messageFetches \cup {fetch}) <= MaxMessageFetches
        /\ chatPartner' = profile
        /\ chatChannel' = chat.channel
        /\ channels' = chat.channels
        /\ IF authUser = Null
           THEN UNCHANGED <<messages, messageFetches>>
           ELSE /\ messages' = {}
                /\ messageFetches' = messageFetches \cup {fetch}
        /\ UNCHANGED <<newMessage, isSending, inserts, deliveries>>
        /\ UNCHANGED <<authUser, layoutMounted, chatMounted, notificationsChannelRef>>
        /\ UNCHANGED <<rlsVars, gateVars, dataVars, authVars, pagesButChat>>

\* The chat_messages rows of the conversation that the caller may select:
\* .or(and(sender_id.eq.user, receiver_id.eq.partner),
\*     and(sender_id.eq.partner, receiver_id.eq.user))
ConversationRows(pols, pf, rows, user, partnerId) ==
    {m \in rows :
        /\ Permitted(pols, pf, user, "chat_messages", "SELECT", m)
        /\ \/ m.sender_id = user /\ m.receiver_id = partnerId
           \/ m.sender_id = partnerId /\ m.receiver_id = user}

\* ChatPage.fetchMessages after its await: setMessages(data || []), or the
\* error is shown and the list is kept.
MessagesFetched(fetch, queryOk) ==
    /\ fetch \in messageFetches
    /\ messageFetches' = messageFetches \ {fetch}
    /\ messages' =
          IF queryOk
          THEN ConversationRows(policies, profiles, chat_messages,
                                fetch.user, fetch.partnerId)
          ELSE messages
    /\ UNCHANGED <<newMessage, isSending, inserts, deliveries>>
    /\ UNCHANGED <<rlsVars, gateVars, dataVars, realtimeVars, authVars, pagesButChat>>

\* The input of the chat page: onChange sets newMessage.
setNewMessage(text) ==
    /\ chatMounted
    /\ text # newMessage
    /\ newMessage' = text
    /\ UNCHANGED <<messages, messageFetches, isSending, inserts, deliveries>>
    /\ UNCHANGED <<rlsVars, gateVars, dataVars, realtimeVars, authVars, pagesButChat>>

\* Variant of ChatPage.handleSendMessage that does not test isSending.
ChatPageHandleSendMessage_NoSendingCheck ==
    /\ chatMounted
    /\ authUser # Null /\ chatPartner # Null /\ newMessage # ""
    /\ Len(inserts) < MaxInserts
    /\ isSending' = TRUE
    /\ newMessage' = ""
    /\ inserts' =
          Append(inserts,
                 [row |-> ChatRow(authUser, chatPartner), content |-> newMessage])
    /\ UNCHANGED <<messages, messageFetches, deliveries>>
    /\ UNCHANGED <<rlsVars, gateVars, dataVars, realtimeVars, authVars, pagesButChat>>

\* ChatPage.handleSendMessage up to its await: nothing without a user, a
\* partner, a text or while a send is in progress; otherwise
\* setIsSending(true), setNewMessage('') and the insert is sent.
ChatPageHandleSendMessage ==
    /\ chatMounted
    /\ authUser # Null /\ chatPartner # Null /\ newMessage # "" /\ ~isSending
    /\ Len(inserts) < MaxInserts
    /\ isSending' = TRUE
    /\ newMessage' = ""
    /\ inserts' =
          Append(inserts,
                 [row |-> ChatRow(authUser, chatPartner), content |-> newMessage])
    /\ UNCHANGED <<messages, messageFetches, deliveries>>
    /\ UNCHANGED <<rlsVars, gateVars, dataVars, realtimeVars, authVars, pagesButChat>>

\* The payloads of an inserted row: one to each subscribed chat channel
\* whose user may select the row.
DeliveriesOf(row) ==
    {[channel |-> c, new |-> row] : c \in
        {c \in channels :
            /\ c.by = "ChatPage"
            /\ Permitted(policies, profiles, authUser, "chat_messages",
                         "SELECT", row)}}

\* ChatPage.handleSendMessage after its await: the oldest insert in flight
\* is served under the INSERT policies; on an error the text is restored;
\* finally setIsSending(false).
ChatPageInsertSettled(insertOk) ==
    LET insert == Head(inserts)
        inserted ==
            /\ insertOk
            /\ Permitted(policies, profiles, insert.row.sender_id,
                         "chat_messages", "INSERT", insert.row)
    IN  /\ inserts # <<>>
        /\ inserts' = Tail(inserts)
        /\ inserted => Cardinality(chat_messages \cup {insert.row}) <= MaxMessages
        /\ chat_messages' =
              IF inserted THEN chat_messages \cup {insert.row} ELSE chat_messages
        /\ deliveries' =
              IF inserted THEN deliveries \cup DeliveriesOf(insert.row)
              ELSE deliveries
        /\ newMessage' =
              IF chatMounted /\ ~inserted THEN insert.content ELSE newMessage
        /\ isSending' = FALSE
        /\ UNCHANGED <<messages, messageFetches>>
        /\ UNCHANGED <<schemaVersion, policies, fixResult, profiles>>
        /\ UNCHANGED <<gateVars, dataVars, realtimeVars, authVars, pagesButChat>>

\* isRelevant of handleNewMessage, with the user and the partner of the
\* effect that subscribed the channel.
isRelevant(row, u, partner) ==
    \/ row.sender_id = u /\ row.receiver_id = partner
    \/ row.sender_id = partner /\ row.receiver_id = u

\* ChatPage.handleNewMessage(payload): a payload reaches the channel of the
\* running effect, or is dropped when its channel was removed; a relevant
\* row is appended to the list.
handleNewMessage(payload) ==
    /\ payload \in deliveries
    /\ deliveries' = deliveries \ {payload}
    /\ messages' =
          IF /\ payload.channel \in channels
             /\ payload.channel = chatChannel
             /\ isRelevant(payload.new, authUser, chatPartner)
          THEN messages \cup {payload.new}
          ELSE messages
    /\ UNCHANGED <<messageFetches, newMessage, isSending, inserts>>
    /\ UNCHANGED <<rlsVars, gateVars, dataVars, realtimeVars, authVars, pagesButChat>>

NextRealtime ==
    \/ MountLayout
    \/ UnmountLayout
    \/ \E u \in Actors : onAuthStateChange(u)
    \/ MountChatPage
    \/ UnmountChatPage
    \/ \E profile \in Ids : handleSelectChat(profile)
    \/ \E rpcOk \in BOOLEAN : fixProfilesPolicy(rpcOk)
    \/ \E u \in Ids : ListenerProfileFetched(u)
    \/ \E fetch \in messageFetches, queryOk \in BOOLEAN :
          MessagesFetched(fetch, queryOk)

\* The dashboard layout and the chat page on one client, with the channels
\* they subscribe.
SpecRealtime == Init /\ [][NextRealtime]_vars

\* The texts typed into the input of the chat page.
Texts == {"", "hello"}

NextChatPage ==
    \/ \E u \in Actors : getSessionThen(u)
    \/ InitialProfileFetched
    \/ MountLayout
    \/ MountChatPage
    \/ \E profile \in Ids : handleSelectChat(profile)
    \/ \E fetch \in messageFetches, queryOk \in BOOLEAN :
          MessagesFetched(fetch, queryOk)
    \/ \E text \in Texts : setNewMessage(text)
    \/ ChatPageHandleSendMessage
    \/ \E insertOk \in BOOLEAN : ChatPageInsertSettled(insertOk)
    \/ \E payload \in deliveries : handleNewMessage(payload)

\* The chat page of one signed-in client: the conversation it shows, the
\* messages it sends and the payloads its channel receives.
SpecChatPage == Init /\ [][NextChatPage]_vars

\* The notifications rows of a user that the user may select.
OwnNotifications(pols, pf, rows, u) ==
    {n \in rows :
        /\ n.user_id = u
        /\ Permitted(pols, pf, u, "notifications", "SELECT",
                     NotificationRow(n.user_id))}

\* fetchUnreadCount: select count where user_id = user.id and read = false
UnreadCount(pols, pf, rows, u) ==
    Cardinality({n \in OwnNotifications(pols, pf, rows, u) : ~n.read})

\* update({read: true}).in("id", ids) by the user: the rows the UPDATE
\* policies let the user write; the others are left as they are.
MarkRead(pols, pf, rows, u, ids) ==
    {IF /\ n.id \in ids
        /\ Permitted(pols, pf, u, "notifications", "UPDATE",
                     NotificationRow(n.user_id))
     THEN Notification(n.id, n.user_id, TRUE)
     ELSE n : n \in rows}

\* fetchUnreadCount().then((count) => setUnreadCount(count)): the query of
\* the user is served and the badge is set to its count.
CountFetched(u) ==
    /\ u \in countFetches
    /\ countFetches' = countFetches \ {u}
    /\ unreadCount' = UnreadCount(policies, profiles, notifications, u)
    /\ UNCHANGED <<notifications, notificationDeliveries, recentNotifications,
                   popoverRequest>>
    /\ UNCHANGED <<rlsVars, gateVars, dataVars, realtimeVars, authVars, pagesButBadge>>

\* The application inserts a notification for a user; a payload is sent to
\* the notifications channel of the user when it is subscribed.
InsertNotification(id, u) ==
    /\ id \in NotificationIds
    /\ \A n \in notifications : n.id # id
    /\ notifications' = notifications \cup {Notification(id, u, FALSE)}
    /\ notificationDeliveries' =
          IF NotificationsChannel(u) \in channels
          THEN notificationDeliveries
                    \cup {[channel |-> NotificationsChannel(u), id |-> id]}
          ELSE notificationDeliveries
    /\ UNCHANGED <<unreadCount, countFetches, recentNotifications, popoverRequest>>
    /\ UNCHANGED <<rlsVars, gateVars, dataVars, realtimeVars, authVars, pagesButBadge>>

\* DashboardLayout, the callback of its channel: a payload that reaches the
\* subscribed channel adds one to the badge; it is dropped when its channel
\* was removed.
NotificationDelivered(payload) ==
    /\ payload \in notificationDeliveries
    /\ notificationDeliveries' = notificationDeliveries \ {payload}
    /\ unreadCount' =
          IF /\ payload.channel \in channels
             /\ payload.channel = notificationsChannelRef
          THEN unreadCount + 1
          ELSE unreadCount
    /\ UNCHANGED <<notifications, countFetches, recentNotifications, popoverRequest>>
    /\ UNCHANGED <<rlsVars, gateVars, dataVars, realtimeVars, authVars, pagesButBadge>>

\* DashboardLayout.handleNotificationsOpen up to its first await: the
\* select of the recent notifications is sent.
handleNotificationsOpen ==
    /\ layoutMounted /\ authUser # Null
    /\ popoverRequest = NoPopoverRequest
    /\ popoverRequest' = PopoverRequest("select", authUser, {})
    /\ UNCHANGED <<notifications, unreadCount, countFetches,
                   notificationDeliveries, recentNotifications>>
    /\ UNCHANGED <<rlsVars, gateVars, dataVars, realtimeVars, authVars, pagesButBadge>>

\* handleNotificationsOpen after the select (at most 5 rows, more than the
\* table holds here): setRecentNotifications(data), and the update of the
\* unread rows is sent; an error ends the handler.
PopoverSelectSettled(queryOk) ==
    LET data == OwnNotifications(policies, profiles, notifications,
                                 popoverRequest.user)
        unreadInPopover == {n.id : n \in {n \in data : ~n.read}}
    IN  /\ popoverRequest.kind = "select"
        /\ recentNotifications' = IF queryOk THEN data ELSE recentNotifications
        /\ popoverRequest' =
              IF queryOk /\ unreadInPopover # {}
              THEN PopoverRequest("update", popoverRequest.user, unreadInPopover)
              ELSE NoPopoverRequest
        /\ UNCHANGED <<notifications, unreadCount, countFetches,
                       notificationDeliveries>>
        /\ UNCHANGED <<rlsVars, gateVars, dataVars, realtimeVars, authVars, pagesButBadge>>

\* handleNotificationsOpen after the update: fetchUnreadCount() is sent.
PopoverUpdateSettled ==
    /\ popoverRequest.kind = "update"
    /\ notifications' =
          MarkRead(policies, profiles, notifications, popoverRequest.user,
                   popoverRequest.ids)
    /\ countFetches' = countFetches \cup {popoverRequest.user}
    /\ popoverRequest' = NoPopoverRequest
    /\ UNCHANGED <<unreadCount, notificationDeliveries, recentNotifications>>
    /\ UNCHANGED <<rlsVars, gateVars, dataVars, realtimeVars, authVars, pagesButBadge>>

\* DashboardLayout.handleMarkAllReadInPopover up to its await: the update
\* of the unread rows of the popover is sent.
handleMarkAllReadInPopover ==
    LET unreadIds == {n.id : n \in {n \in recentNotifications : ~n.read}}
    IN  /\ layoutMounted /\ authUser # Null
        /\ unreadIds # {}
        /\ popoverRequest = NoPopoverRequest
        /\ popoverRequest' = PopoverRequest("markAll", authUser, unreadIds)
        /\ UNCHANGED <<notifications, unreadCount, countFetches,
                       notificationDeliveries, recentNotifications>>
        /\ UNCHANGED <<rlsVars, gateVars, dataVars, realtimeVars, authVars, pagesButBadge>>

\* handleMarkAllReadInPopover after the update: every row of the popover is
\* shown as read and fetchUnreadCount() is sent.
MarkAllSettled ==
    /\ popoverRequest.kind = "markAll"
    /\ notifications' =
          MarkRead(policies, profiles, notifications, popoverRequest.user,
                   popoverRequest.ids)
    /\ recentNotifications' =
          {Notification(n.id, n.user_id, TRUE) : n \in recentNotifications}
    /\ countFetches' = countFetches \cup {popoverRequest.user}
    /\ popoverRequest' = NoPopoverRequest
    /\ UNCHANGED <<unreadCount, notificationDeliveries>>
    /\ UNCHANGED <<rlsVars, gateVars, dataVars, realtimeVars, authVars, pagesButBadge>>

NextBadge ==
    \/ \E u \in Actors : getSessionThen(u)
    \/ MountLayout
    \/ UnmountLayout
    \/ \E u \in Ids : CountFetched(u)
    \/ \E id \in NotificationIds, u \in Ids : InsertNotification(id, u)
    \/ \E payload \in notificationDeliveries : NotificationDelivered(payload)
    \/ handleNotificationsOpen
    \/ \E queryOk \in BOOLEAN : PopoverSelectSettled(queryOk)
    \/ PopoverUpdateSettled
    \/ handleMarkAllReadInPopover
    \/ MarkAllSettled

\* The notification badge of the dashboard layout: its count fetches, the
\* payloads of its channel and the popover that marks notifications read.
SpecBadge == Init /\ [][NextBadge]_vars

\* NotificationsPage is mounted inside the layout: its effect runs with the
\* current user.
MountNotificationsPage ==
    /\ layoutMounted /\ ~notificationsPageMounted
    /\ notificationsPageMounted' = TRUE
    /\ pageNotifications' = {}
    /\ pageRequests' =
          IF authUser = Null THEN pageRequests
          ELSE pageRequests \cup {PageRequest("fetch", authUser, Null, {})}
    /\ UNCHANGED notifications
    /\ UNCHANGED <<rlsVars, gateVars, dataVars, realtimeVars, authVars, pagesButNotificationsPage>>

\* notifications.map(n => n.id === id ? {...n, read: read} : n)
WithRead(list, id, read) ==
    {IF n.id = id THEN Notification(n.id, n.user_id, read) ELSE n : n \in list}

\* NotificationsPage.handleMarkAsRead up to its await; the button of a
\* notification shown as read is disabled.
handleMarkAsRead(notificationId) ==
    /\ notificationsPageMounted
    /\ \E n \in pageNotifications : n.id = notificationId /\ ~n.read
    /\ Cardinality(pageRequests) < MaxPageRequests
    /\ pageNotifications' = WithRead(pageNotifications, notificationId, TRUE)
    /\ pageRequests' =
          pageRequests
            \cup {PageRequest("markAsRead", authUser, notificationId, {})}
    /\ UNCHANGED <<notificationsPageMounted, notifications>>
    /\ UNCHANGED <<rlsVars, gateVars, dataVars, realtimeVars, authVars, pagesButNotificationsPage>>

\* NotificationsPage.handleMarkAllAsRead up to its await.
handleMarkAllAsRead ==
    /\ notificationsPageMounted
    /\ authUser # Null
    /\ \E n \in pageNotifications : ~n.read
    /\ Cardinality(pageRequests) < MaxPageRequests
    /\ pageNotifications' =
          {Notification(n.id, n.user_id, TRUE) : n \in pageNotifications}
    /\ pageRequests' =
          pageRequests
            \cup {PageRequest("markAllAsRead", authUser, Null, pageNotifications)}
    /\ UNCHANGED <<notificationsPageMounted, notifications>>
    /\ UNCHANGED <<rlsVars, gateVars, dataVars, realtimeVars, authVars, pagesButNotificationsPage>>

\* NotificationsPage.handleDelete up to its await, the confirm accepted.
NotificationsPageHandleDelete(notificationId) ==
    /\ notificationsPageMounted
    /\ \E n \in pageNotifications : n.id = notificationId
    /\ Cardinality(pageRequests) < MaxPageRequests
    /\ pageNotifications' = {n \in pageNotifications : n.id # notificationId}
    /\ pageRequests' =
          pageRequests
            \cup {PageRequest("delete", authUser, notificationId,
                              pageNotifications)}
    /\ UNCHANGED <<notificationsPageMounted, notifications>>
    /\ UNCHANGED <<rlsVars, gateVars, dataVars, realtimeVars, authVars, pagesButNotificationsPage>>

\* The notifications table after a write of the page is served: the rows
\* the policies let the user write are written, the others are left.
Served(pols, pf, rows, r) ==
    CASE r.kind = "markAsRead" -> MarkRead(pols, pf, rows, r.user, {r.id})
      [] r.kind = "markAllAsRead" ->
            MarkRead(pols, pf, rows, r.user,
                     {n.id : n \in {n \in rows : n.user_id = r.user /\ ~n.read}})
      [] r.kind = "delete" ->
            {n \in rows :
                ~(/\ n.id = r.id
                  /\ Permitted(pols, pf, r.user, "notifications", "DELETE",
                               NotificationRow(n.user_id)))}
      [] OTHER -> rows

\* The list after the catch block of a write that failed.
Reverted(list, r) ==
    CASE r.kind = "markAsRead" -> WithRead(list, r.id, FALSE)
      [] r.kind = "markAllAsRead" -> r.original
      [] r.kind = "delete" -> r.original
      [] OTHER -> list

\* A request of the page is served and its continuation runs: the fetch
\* sets the list; a write that returned an error is reverted.
PageRequestSettled(r, requestOk) ==
    /\ r \in pageRequests
    /\ pageRequests' = pageRequests \ {r}
    /\ notifications' =
          IF requestOk THEN Served(policies, profiles, notifications, r)
          ELSE notifications
    /\ pageNotifications' =
          CASE r.kind = "fetch" /\ requestOk ->
                  OwnNotifications(policies, profiles, notifications, r.user)
            [] r.kind # "fetch" /\ ~requestOk -> Reverted(pageNotifications, r)
            [] OTHER -> pageNotifications
    /\ UNCHANGED notificationsPageMounted
    /\ UNCHANGED <<rlsVars, gateVars, dataVars, realtimeVars, authVars, pagesButNotificationsPage>>

NextNotificationsPage ==
    \/ \E u \in Actors : getSessionThen(u)
    \/ MountLayout
    \/ MountNotificationsPage
    \/ \E id \in NotificationIds, u \in Ids : InsertNotification(id, u)
    \/ \E id \in NotificationIds : handleMarkAsRead(id)
    \/ handleMarkAllAsRead
    \/ \E id \in NotificationIds : NotificationsPageHandleDelete(id)
    \/ \E r \in pageRequests, requestOk \in BOOLEAN :
          PageRequestSettled(r, requestOk)

\* The notifications page of one signed-in client: its list, its optimistic
\* updates and the requests it awaits.
SpecNotificationsPage == Init /\ [][NextNotificationsPage]_vars

\* ------------------------------------------------------------------------
\* AuthService (lib/services/auth-service)
\* ------------------------------------------------------------------------
\* The e-mail addresses and passwords of the calls.
Credentials == {"", "x"}

\* AuthService.signIn up to its first await: empty inputs throw; otherwise
\* supabase.auth.signOut() is awaited.
signIn(email, password) ==
    /\ signInState = "idle"
    /\ signInState' =
          IF email = "" \/ password = "" THEN "rejected" ELSE "signOut"
    /\ UNCHANGED <<signInPromise, signInTimeout, isAuthenticatedState,
                   isAuthenticatedValue, authCheckPromise, timeoutPromise>>
    /\ UNCHANGED <<rlsVars, gateVars, dataVars, realtimeVars, authVars, pagesButService>>

\* supabase.auth.signOut() settles, fulfilled or rejected (the catch block
\* continues either way): signInWithPassword() is sent, the 10 s timer is
\* set and the race of the two is awaited.
SignOutSettled(threw) ==
    /\ signInState = "signOut"
    /\ signInState' = "race"
    /\ signInPromise' = "pending"
    /\ signInTimeout' = "armed"
    /\ UNCHANGED <<isAuthenticatedState, isAuthenticatedValue,
                   authCheckPromise, timeoutPromise>>
    /\ UNCHANGED <<rlsVars, gateVars, dataVars, realtimeVars, authVars, pagesButService>>

\* What signInWithPassword() settles with.
SignInAnswers == {"error", "noSession", "session", "threw"}

\* signInWithPassword() settles; when the race is still open the call
\* continues: an error, a missing session or a rejection reject it, a
\* session resolves it.
SignInSettled(answer) ==
    /\ signInPromise = "pending"
    /\ signInPromise' = answer
    /\ signInState' =
          IF signInState # "race" THEN signInState
          ELSE IF answer = "session" THEN "resolved" ELSE "rejected"
    /\ UNCHANGED <<signInTimeout, isAuthenticatedState, isAuthenticatedValue,
                   authCheckPromise, timeoutPromise>>
    /\ UNCHANGED <<rlsVars, gateVars, dataVars, realtimeVars, authVars, pagesButService>>

\* The 10 s timer of signIn fires: timeoutPromise rejects, and with it the
\* race when it is still open.
SignInTimeoutFired ==
    /\ signInTimeout = "armed"
    /\ signInTimeout' = "fired"
    /\ signInState' = IF signInState = "race" THEN "rejected" ELSE signInState
    /\ UNCHANGED <<signInPromise, isAuthenticatedState, isAuthenticatedValue,
                   authCheckPromise, timeoutPromise>>
    /\ UNCHANGED <<rlsVars, gateVars, dataVars, realtimeVars, authVars, pagesButService>>

\* AuthService.isAuthenticated up to its await: localStorage.getItem may
\* throw, which the outer catch turns into false; otherwise the 3 s timer
\* is set, getSession() is called and the race of the two is awaited.
isAuthenticated(storageThrows) ==
    /\ isAuthenticatedState = "idle"
    /\ isAuthenticatedState' = IF storageThrows THEN "resolved" ELSE "race"
    /\ isAuthenticatedValue' = FALSE
    /\ authCheckPromise' = IF storageThrows THEN "none" ELSE "pending"
    /\ timeoutPromise' = IF storageThrows THEN "unset" ELSE "armed"
    /\ UNCHANGED <<signInState, signInPromise, signInTimeout>>
    /\ UNCHANGED <<rlsVars, gateVars, dataVars, realtimeVars, authVars, pagesButService>>

\* What getSession() settles with.
GetSessionAnswers == {"error", "noSession", "session", "threw"}

\* Variant of GetSessionSettled in which the answer of getSession() sets
\* the value of the call also after the race has settled.
GetSessionSettled_LastWins(answer) ==
    /\ authCheckPromise = "pending"
    /\ authCheckPromise' = answer
    /\ isAuthenticatedState' = "resolved"
    /\ isAuthenticatedValue' = (answer = "session")
    /\ UNCHANGED <<signInState, signInPromise, signInTimeout, timeoutPromise>>
    /\ UNCHANGED <<rlsVars, gateVars, dataVars, realtimeVars, authVars, pagesButService>>

\* getSession() settles and authCheckPromise resolves: false on an error or
\* a rejection, !!data.session otherwise; when the race is still open the
\* call resolves with that value.
GetSessionSettled(answer) ==
    /\ authCheckPromise = "pending"
    /\ authCheckPromise' = answer
    /\ isAuthenticatedState' =
          IF isAuthenticatedState = "race" THEN "resolved"
          ELSE isAuthenticatedState
    /\ isAuthenticatedValue' =
          IF isAuthenticatedState = "race" THEN answer = "session"
          ELSE isAuthenticatedValue
    /\ UNCHANGED <<signInState, signInPromise, signInTimeout, timeoutPromise>>
    /\ UNCHANGED <<rlsVars, gateVars, dataVars, realtimeVars, authVars, pagesButService>>

\* The 3 s timer of isAuthenticated fires: timeoutPromise resolves false,
\* and with it the race when it is still open.
TimeoutFired ==
    /\ timeoutPromise = "armed"
    /\ timeoutPromise' = "fired"
    /\ isAuthenticatedState' =
          IF isAuthenticatedState = "race" THEN "resolved"
          ELSE isAuthenticatedState
    /\ isAuthenticatedValue' =
          IF isAuthenticatedState = "race" THEN FALSE ELSE isAuthenticatedValue
    /\ UNCHANGED <<signInState, signInPromise, signInTimeout,
                   authCheckPromise>>
    /\ UNCHANGED <<rlsVars, gateVars, dataVars, realtimeVars, authVars, pagesButService>>

NextAuthService ==
    \/ \E email \in Credentials, password \in Credentials :
          signIn(email, password)
    \/ \E threw \in BOOLEAN : SignOutSettled(threw)
    \/ \E answer \in SignInAnswers : SignInSettled(answer)
    \/ SignInTimeoutFired
    \/ \E storageThrows \in BOOLEAN : isAuthenticated(storageThrows)
    \/ \E answer \in GetSessionAnswers : GetSessionSettled(answer)
    \/ TimeoutFired

\* One call of signIn and one of isAuthenticated: the back end answers a
\* request or never does; a timer that is set fires.
SpecAuthService ==
    /\ Init
    /\ [][NextAuthService]_vars
    /\ WF_vars(SignInTimeoutFired)
    /\ WF_vars(TimeoutFired)

NextAuth ==
    \/ \E u \in Actors : onAuthStateChange(u)
    \/ \E u \in Ids : ListenerProfileFetched(u)
    \/ \E u \in Actors : getSessionThen(u)
    \/ InitialProfileFetched
    \/ ApplyTempAllowAllChatSelect
    \/ ApplyAddSoftDelete

\* The auth provider of the client: auth state events, the initial session
\* check and the completions of the profile fetches they start.
SpecAuth == Init /\ [][NextAuth]_vars

\* ------------------------------------------------------------------------
\* Properties
\* ------------------------------------------------------------------------
\* The profiles table with the role of one profile replaced.
WithRole(pf, uid, role) == [pf EXCEPT ![uid].role = role]

AllMigrationsApplied == schemaVersion = DecoupleVersion

\* C1: for every table, command, row and actor, an operation permitted when
\* the actor's role is STAFF is also permitted when the same actor's role is
\* ADMIN, everything else being equal.
C1_AdminNeverDeniedWhatStaffIsPermitted ==
    \A uid \in Ids :
        LET asStaff == WithRole(profiles, uid, "STAFF")
            asAdmin == WithRole(profiles, uid, "ADMIN")
        IN  \A tbl \in Tables, cmd \in Cmds :
                LET ps == PoliciesFor(policies, tbl, cmd)
                IN  \A row \in RowsOf(tbl) :
                        PermittedBy(ps, asStaff, uid, row)
                        => PermittedBy(ps, asAdmin, uid, row)

\* The seeded staff member has been made ADMIN through the staff dialog and
\* keeps the medication-log insert it had as STAFF.
C1_Witness ==
    /\ profiles[2].role = "ADMIN"
    /\ schemaVersion >= MedicationLogVersion
    /\ Permitted(policies, WithRole(profiles, 2, "STAFF"), 2,
                 "medication_log", "INSERT", MedicationLogRow(2))
    /\ Permitted(policies, profiles, 2, "medication_log", "INSERT",
                 MedicationLogRow(2))

\* C2: once the restore migration has been applied, a chat_messages row can
\* be selected by its sender and its receiver and by no other authenticated
\* actor, whatever that actor's role.
C2_ChatSelectOnlyByParticipantsAfterRestore ==
    schemaVersion >= RestoreChatVersion =>
        \A c \in Ids, a \in Ids, b \in Ids :
            Permitted(policies, profiles, c, "chat_messages", "SELECT",
                      ChatRow(a, b))
            <=> c \in {a, b}

\* A message is stored, the restore migration is applied, and an ADMIN who is
\* neither its sender nor its receiver is denied SELECT on it.
C2_Witness ==
    /\ schemaVersion >= RestoreChatVersion
    /\ \E m \in chat_messages, c \in Ids :
          /\ c \notin {m.sender_id, m.receiver_id}
          /\ profiles[c].role = "ADMIN"
          /\ ~Permitted(policies, profiles, c, "chat_messages", "SELECT", m)
          /\ Permitted(policies, profiles, m.receiver_id, "chat_messages",
                       "SELECT", m)

\* C3: an actor whose role is not ADMIN is permitted to UPDATE a profiles
\* row exactly when the row's id is the actor's id.
C3_NonAdminUpdatesOnlyOwnProfile ==
    \A uid \in Ids, p \in Ids :
        profiles[uid].role # "ADMIN" =>
            (Permitted(policies, profiles, uid, "profiles", "UPDATE",
                       ProfileRow(p))
             <=> uid = p)

\* The FAMILY user has updated its own profile (only it could, the admin
\* update policy not being installed), and cannot update another profile.
C3_Witness ==
    /\ fixResult # "fixed"
    /\ profiles[3].role = "FAMILY"
    /\ profiles[3].status = "inactive"
    /\ ~Permitted(policies, profiles, 3, "profiles", "UPDATE", ProfileRow(4))

\* C4: an actor whose role is ADMIN is permitted to UPDATE every profiles
\* row, including rows of other users.
C4_AdminUpdatesAnyProfile ==
    \A uid \in Ids, p \in Ids :
        profiles[uid].role = "ADMIN" =>
            Permitted(policies, profiles, uid, "profiles", "UPDATE",
                      ProfileRow(p))

\* C5: an actor whose role is FAMILY is permitted to SELECT every residents
\* row, whatever profile the row references.
C5_FamilySelectsEveryResident ==
    \A uid \in Ids, p \in IdsOrNull :
        profiles[uid].role = "FAMILY" =>
            Permitted(policies, profiles, uid, "residents", "SELECT",
                      ResidentRow(p))

\* With every migration applied, the FAMILY user selects the residents row
\* of the seeded resident and a row that references no profile.
C5_Witness ==
    /\ AllMigrationsApplied
    /\ profiles[3].role = "FAMILY"
    /\ profiles[4].role = "RESIDENT"
    /\ Permitted(policies, profiles, 3, "residents", "SELECT", ResidentRow(4))
    /\ Permitted(policies, profiles, 3, "residents", "SELECT",
                 ResidentRow(Null))

\* The profiles table with the status of one profile replaced.
WithStatus(pf, p, status) == [pf EXCEPT ![p].status = status]

\* C6: setting the status of any profile to 'active' or 'inactive' leaves
\* the outcome of every SELECT, on every table and row and for every actor
\* (the changed profile's owner included), as it is.
C6_StatusChangeKeepsSelectOutcomes ==
    \A p \in Ids, status \in Statuses :
        (profiles[p].status \in Statuses \ {status}) =>
            LET changed == WithStatus(profiles, p, status)
            IN  \A tbl \in Tables :
                    LET ps == PoliciesFor(policies, tbl, "SELECT")
                    IN  \A uid \in Actors :
                            \A row \in RowsOf(tbl) :
                                PermittedBy(ps, changed, uid, row)
                                <=> PermittedBy(ps, profiles, uid, row)

\* The seeded staff member is inactive, still selects incidents, and its
\* profile is still returned to the admin by the staff list.
C6_Witness ==
    /\ profiles[2].status = "inactive"
    /\ profiles[2].role = "STAFF"
    /\ Permitted(policies, profiles, 2, "incidents", "SELECT",
                 CHOOSE r \in RowsOf("incidents") : TRUE)
    /\ profiles[1].role = "ADMIN"
    /\ 2 \in fetchStaff(policies, profiles, 1)

C8_ChatInsertOnlyAsSelf ==
    \A uid \in Actors :
        \A row \in RowsOf("chat_messages") :
            Permitted(policies, profiles, uid, "chat_messages", "INSERT", row)
            => (uid # Null /\ uid = row.sender_id)

\* With the insert policy re-created by the restore migration, a message
\* sent by an ADMIN is stored and the ADMIN cannot insert one in the
\* receiver's name.
C8_Witness ==
    /\ schemaVersion >= RestoreChatVersion
    /\ \E m \in chat_messages :
          /\ profiles[m.sender_id].role = "ADMIN"
          /\ Permitted(policies, profiles, m.sender_id, "chat_messages",
                       "INSERT", m)
          /\ ~Permitted(policies, profiles, m.sender_id, "chat_messages",
                        "INSERT", ChatRow(m.receiver_id, m.sender_id))

ClinicalTables == {"incidents", "care_plans", "care_routines", "medications"}

\* C9: on incidents, care_plans, care_routines and medications, SELECT and
\* INSERT are permitted exactly when the actor's role is ADMIN or STAFF; a
\* FAMILY or RESIDENT actor is denied both.
C9_ClinicalTablesOnlyAdminOrStaff ==
    \A uid \in Actors, tbl \in ClinicalTables, cmd \in {"SELECT", "INSERT"} :
        \A row \in RowsOf(tbl) :
            Permitted(policies, profiles, uid, tbl, cmd, row)
            <=> (uid \in Ids /\ profiles[uid].role \in {"ADMIN", "STAFF"})

\* The seeded admin has been made STAFF and still inserts medications, while
\* the FAMILY and RESIDENT users are denied SELECT and INSERT on incidents.
C9_Witness ==
    /\ profiles[1].role = "STAFF"
    /\ profiles[3].role = "FAMILY"
    /\ profiles[4].role = "RESIDENT"
    /\ \A row \in RowsOf("medications") :
          Permitted(policies, profiles, 1, "medications", "INSERT", row)
    /\ \A uid \in {3, 4}, cmd \in {"SELECT", "INSERT"} :
          \A row \in RowsOf("incidents") :
              ~Permitted(policies, profiles, uid, "incidents", cmd, row)

\* C10: an actor is permitted to SELECT a notifications row exactly when the
\* row's user_id is the actor's id; no role reads another user's rows.
C10_NotificationSelectOnlyOwn ==
    \A uid \in Actors, u \in IdsOrNull :
        Permitted(policies, profiles, uid, "notifications", "SELECT",
                  NotificationRow(u))
        <=> (uid \in Ids /\ uid = u)

\* After the profiles fix, the ADMIN is denied the staff member's
\* notification and the staff member is permitted it.
C10_Witness ==
    /\ fixResult = "fixed"
    /\ profiles[1].role = "ADMIN"
    /\ ~Permitted(policies, profiles, 1, "notifications", "SELECT",
                  NotificationRow(2))
    /\ Permitted(policies, profiles, 2, "notifications", "SELECT",
                 NotificationRow(2))

\* ------------------------------------------------------------------------
\* Route gate properties
\* ------------------------------------------------------------------------
\* A path under a protected prefix that the gate does not pass through as a
\* public asset or an auth route.
IsProtectedPath(path) ==
    isProtectedRoute(path) /\ ~IsAuthRoute(path) /\ ~IsPublicAsset(path)

\* The gate has answered a request to a protected path.
ProtectedRequest ==
    response # NoResponse /\ IsProtectedPath(request.path)

\* The gate went on to fetch the session: no auth cookie was detected.
SessionFetched ==
    /\ ProtectedRequest
    /\ request.refresh = "ok"
    /\ ~hasAuthCookie(request.cookies)

\* The gate went on to fetch the role of the user the session returned.
RoleFetched ==
    /\ SessionFetched
    /\ request.getSession.outcome = "ok"
    /\ request.getSession.user # Null

\* The gate read the role of the user.
RoleKnown == RoleFetched /\ request.profileQuery = "ok"

\* The role is in the allowed-roles list of every protected prefix the path
\* is under.
AllowedFor(path, role) ==
    \A i \in DOMAIN protectedRoutes :
        StartsWith(path, protectedRoutes[i].route)
            => role \in protectedRoutes[i].roles

C12_GrantedOnlyToAllowedRoles ==
    (RoleKnown /\ response = ResNext)
        => AllowedFor(request.path, profiles[request.getSession.user].role)

\* C13: when the user is authenticated and the role is not in the allowed
\* roles of the requested route, the response is the redirect to /dashboard.
C13_RoleMismatchRedirectsToDashboard ==
    (RoleKnown
     /\ ~AllowedFor(request.path, profiles[request.getSession.user].role))
        => response = Redirect(DashboardPath, <<>>)

\* C14: a request to a protected path with no auth cookie, for which the
\* session fetch returns no session, is answered with a redirect to /login
\* that carries redirectedFrom = the requested path.
C14_NoSessionRedirectsToLogin ==
    (/\ SessionFetched
     /\ request.getSession = [outcome |-> "ok", user |-> Null])
        => response = Redirect(<<"/", "login">>, request.path)

C14_Witness ==
    /\ SessionFetched
    /\ request.getSession = [outcome |-> "ok", user |-> Null]
    /\ request.path = DashboardPath \o <<"/", "admin", "/", "users">>
    /\ response.redirectedFrom = request.path

\* A cookie the heuristic is written for: one of the two token cookies, or
\* a name that starts with sb- and includes auth.
CarriesAuthCookie(cookies) ==
    \E i \in DOMAIN cookies :
        cookies[i] \in {"sb-access-token", "sb-refresh-token"}
        \/ SbAuthName(cookies[i])

\* C15: a request to a protected route that carries a matching auth cookie
\* is treated as authenticated whatever the session fetch would return.
C15_AuthCookieDecides ==
    (/\ ProtectedRequest
     /\ request.refresh = "ok"
     /\ CarriesAuthCookie(request.cookies))
        => response = ResNext

\* ------------------------------------------------------------------------
\* Properties of the create and delete flows
\* ------------------------------------------------------------------------
\* No residents row references the profile.
Unreferenced(p) == \A r \in residents : r.profile_id # p

\* C16: when CreateResidentDialog.onSubmit ends with the resident insert
\* failed after the profile insert succeeded, the profile it created exists
\* with role RESIDENT and no residents row references it.
C16_FailedResidentInsertLeavesOrphanProfile ==
    (toast.op = "CreateResidentDialog" /\ toast.failed = 2)
        => /\ toast.id \in DOMAIN profiles
           /\ profiles[toast.id].role = "RESIDENT"
           /\ Unreferenced(toast.id)

C16_Witness ==
    /\ toast = Toast("CreateResidentDialog", 2, NumSeedProfiles + 1)
    /\ toast.id \in DOMAIN profiles
    /\ Unreferenced(toast.id)

\* The identities and the profiles of the state are still there after the
\* step.
ArtifactsKept ==
    /\ auth_users \subseteq auth_users'
    /\ \A p \in DOMAIN profiles :
          p \in DOMAIN profiles' /\ profiles'[p].role = profiles[p].role

\* C17: when a staff, family or self-registration flow ends with step 2 or
\* 3 failed, the identity created by step 1 exists, and after a failed step
\* 3 so does the profile created by step 2; and no step of any client
\* operation removes an identity or a profile afterwards.
C17_FailedStepKeepsEarlierArtifacts ==
    /\ [](/\ toast.op \in {"CreateStaffDialog", "CreateFamilyDialog", "signUp"}
          /\ toast.failed \in {2, 3}
          => /\ toast.id \in auth_users
             /\ toast.failed = 3
                  => /\ toast.id \in DOMAIN profiles
                     /\ profiles[toast.id].role = "STAFF")
    /\ [][ArtifactsKept]_vars

C17_Witness ==
    /\ toast = Toast("CreateStaffDialog", 3, NumSeedProfiles + 1)
    /\ toast.id \in auth_users
    /\ toast.id \in DOMAIN profiles
    /\ \A x \in staff : x.profile_id # toast.id

\* C18: every residents row references an existing profile with role
\* RESIDENT, and every profile with role RESIDENT is referenced by exactly
\* one residents row.
C18_ResidentProfileOneToOne ==
    /\ \A r \in residents :
          /\ r.profile_id \in DOMAIN profiles
          /\ profiles[r.profile_id].role = "RESIDENT"
    /\ \A p \in DOMAIN profiles :
          profiles[p].role = "RESIDENT"
              => Cardinality({r \in residents : r.profile_id = p}) = 1

NotificationsSubscribed == \E c \in channels : c.by = "DashboardLayout"

\* C20: the notifications channel is subscribed exactly while the dashboard
\* layout is mounted with a signed-in user, whatever the pages inside the
\* layout do.
C20_NotificationsChannelWhileMounted ==
    NotificationsSubscribed <=> (layoutMounted /\ authUser # Null)

\* ------------------------------------------------------------------------
\* Properties of the auth provider
\* ------------------------------------------------------------------------
\* C21: whenever loading is false, a non-null user is accompanied by the
\* profile whose id equals user.id (when such a row exists), and a null
\* user is accompanied by a null profile.
C21_ProfileMatchesUserWhenLoaded ==
    ~authLoading =>
        /\ authUser # Null /\ authUser \in DOMAIN profiles =>
              authProfile = authUser
        /\ authUser = Null => authProfile = Null

\* ------------------------------------------------------------------------
\* Properties of self-registration
\* ------------------------------------------------------------------------
\* C22: no policy-permitted operation of an actor whose role is not ADMIN
\* creates a profiles row with role ADMIN: the profile a self-registration
\* (signUp by a visitor who has no profile yet) created never has role ADMIN.
C22_SelfRegistrationNeverCreatesAdmin ==
    toast.op = "signUp" /\ toast.failed = 0 /\ toast.id \in DOMAIN profiles =>
        profiles[toast.id].role # "ADMIN"

\* ------------------------------------------------------------------------
\* Properties of the chat page
\* ------------------------------------------------------------------------
\* C23: every message in the displayed list belongs to the conversation
\* between the current user and the currently selected partner, also when
\* the partner is switched while an earlier fetch or delivery is in flight.
C23_MessagesBelongToConversation ==
    \A m \in messages :
        /\ authUser # Null /\ chatPartner # Null
        /\ isRelevant(m, authUser, chatPartner)

\* The chat channels subscribed on the client.
ChatChannels == {c \in channels : c.by = "ChatPage"}

\* C26: whenever the chat page is mounted with a user and a selected
\* partner, exactly one chat channel is subscribed and it is the one of that
\* pair, also after the current partner is selected again.
C26_OneChatChannelForSelectedPair ==
    chatMounted /\ authUser # Null /\ chatPartner # Null =>
        ChatChannels = {ChatChannel(authUser, chatPartner)}

\* A step that sends an insert is taken with a user, a partner and a text,
\* while no send is in progress.
InsertOnlyWhenIdle ==
    Len(inserts') > Len(inserts) =>
        /\ ~isSending
        /\ authUser # Null /\ chatPartner # Null /\ newMessage # ""

\* C28: at most one chat_messages insert of the chat page is in flight at
\* any time, and a call of handleSendMessage while a send is in progress, or
\* with no user, no partner or an empty message, performs no insert.
C28_AtMostOneInsertInFlight ==
    [](Len(inserts) <= 1) /\ [][InsertOnlyWhenIdle]_vars

\* A send is in progress and the user has typed the next message.
C28_Witness ==
    /\ Len(inserts) = 1
    /\ isSending
    /\ newMessage # ""

\* ------------------------------------------------------------------------
\* Properties of navigation
\* ------------------------------------------------------------------------
\* C24: for any fixed session state the chain of redirects produced by the
\* route gate and the login page is finite: a navigation that was started
\* settles on a page.
C24_NavigationStabilises ==
    (navigation = "requested") ~> (navigation = "settled")

\* ------------------------------------------------------------------------
\* Properties of the notification badge
\* ------------------------------------------------------------------------
\* No count fetch, payload or popover request of the layout is in flight.
BadgeQuiescent ==
    /\ countFetches = {}
    /\ notificationDeliveries = {}
    /\ popoverRequest = NoPopoverRequest

\* C25: once every count fetch and every realtime delivery has completed,
\* the badge equals the number of notifications rows of the current user
\* with read = false.
C25_BadgeEqualsUnreadRows ==
    layoutMounted /\ authUser # Null /\ BadgeQuiescent =>
        unreadCount =
            Cardinality({n \in notifications : n.user_id = authUser /\ ~n.read})

\* ------------------------------------------------------------------------
\* Properties of the notifications page
\* ------------------------------------------------------------------------
\* C27: once all requests of the notifications page have completed, the
\* displayed list (ids and read flags) equals what the table holds for those
\* notifications, also after failed and overlapping requests.
C27_ListEqualsStoreWhenSettled ==
    notificationsPageMounted /\ pageRequests = {} =>
        \A n \in pageNotifications : n \in notifications

\* ------------------------------------------------------------------------
\* Properties of AuthService
\* ------------------------------------------------------------------------
\* C29: a call of signIn that has started settles, resolved or rejected,
\* whatever the back end does, also when it never answers a request.
C29_SignInSettles ==
    (signInState \in {"signOut", "race"})
        ~> (signInState \in {"resolved", "rejected"})

\* The value of isAuthenticated becomes true only in a step in which the
\* 3 s timer has not fired and getSession() returns a session.
TrueOnlyBySessionBeforeTimeout ==
    isAuthenticatedValue' /\ ~isAuthenticatedValue =>
        timeoutPromise = "armed" /\ authCheckPromise' = "session"

\* C30: isAuthenticated never rejects; a call that awaits its race resolves
\* to a boolean once the 3 s timer has fired at the latest; it resolves to
\* true only if getSession() returned a session, without an error, before
\* the timer fired.
C30_IsAuthenticatedResolves ==
    /\ [](isAuthenticatedState # "rejected")
    /\ [](isAuthenticatedValue =>
            isAuthenticatedState = "resolved" /\ authCheckPromise = "session")
    /\ [][TrueOnlyBySessionBeforeTimeout]_vars
    /\ [](timeoutPromise = "fired" => isAuthenticatedState = "resolved")
    /\ (isAuthenticatedState = "race") ~> (isAuthenticatedState = "resolved")

C30_Witness ==
    /\ isAuthenticatedState = "resolved"
    /\ isAuthenticatedValue
    /\ authCheckPromise = "session"
    /\ timeoutPromise = "fired"

====
